---- MODULE Spec2Model ----
(***************************************************************************)
(* Verification model of fast-linkedin-scraper.                            *)
(*                                                                         *)
(*  - URL canonicalisation (scrapers/company/utils.py)                     *)
(*  - the employees paginated collector (scrapers/company/employees.py)    *)
(*  - the company orchestrator (scrapers/company/get_company.py)           *)
(*  - the person orchestrator (scrapers/person/get_person.py)              *)
(*                                                                         *)
(* Strings that matter only as a whole are single tokens; a URL is a       *)
(* sequence of tokens:                                                     *)
(*    "O" = "https://www.linkedin.com"   "U" = "HTTPS://WWW.LINKEDIN.COM"  *)
(*    "M" = "https://WWW.LINKEDIN.COM"   (what urljoin makes of "U")       *)
(*    "p" = "/in/bob"   "P" = "/in/Bob"   "q" = "/in/eve"                  *)
(*    "/", "?", "#", "x" stand for themselves.                             *)
(***************************************************************************)
EXTENDS Integers, Sequences, FiniteSets, TLC

\* ------------------------------------------------------------------------
\* Bounds of the model
\* ------------------------------------------------------------------------
MaxTail == 2

MaxBudget == 2

MaxSrcPages == 3

MaxItems == 2

\* ------------------------------------------------------------------------
\* Strings as token sequences
\* ------------------------------------------------------------------------
OriginTokens == {"O", "U"}

PathTokens == {"p", "P", "q"}

TailTokens == {"/", "?", "#", "x"}

RECURSIVE SeqsUpTo(_, _)
SeqsUpTo(S, n) ==
    IF n = 0 THEN {<<>>}
    ELSE LET shorter == SeqsUpTo(S, n - 1)
         IN  shorter \cup {Append(s, c) : s \in {t \in shorter : Len(t) = n - 1}, c \in S}

\* the one element of a set of one element
Only(S) == CHOOSE x \in S : TRUE

\* what an href can put before the profile path: nothing, a relative
\* segment, one more slash, or the two slashes and the host of a
\* network-path reference
Leads == {<<>>, <<"x">>, <<"/">>, <<"/", "/", "x">>}

\* hrefs the selector a[href*='/in/'] can deliver: optional origin, a lead, a
\* profile path, any tail
RawUrls ==
    {org \o lead \o <<p>> \o tail :
        org \in {<<>>, <<"O">>, <<"U">>}, lead \in Leads, p \in PathTokens,
        tail \in SeqsUpTo(TailTokens, MaxTail)}

\* index of the first occurrence of ch in s, 0 when absent
FirstIndex(s, ch) ==
    IF \E k \in 1..Len(s) : s[k] = ch
    THEN CHOOSE k \in 1..Len(s) : s[k] = ch /\ \A j \in 1..(k - 1) : s[j] # ch
    ELSE 0

\* s.split(ch)[0]
SplitHead(s, ch) ==
    IF FirstIndex(s, ch) = 0 THEN s ELSE SubSeq(s, 1, FirstIndex(s, ch) - 1)

\* the text after the first ch, empty when ch is absent
SplitRest(s, ch) ==
    IF FirstIndex(s, ch) = 0 THEN <<>> ELSE SubSeq(s, FirstIndex(s, ch) + 1, Len(s))

\* s.rstrip("/") but removing a single trailing slash only
RstripOnce(s) ==
    IF Len(s) > 0 /\ s[Len(s)] = "/" THEN SubSeq(s, 1, Len(s) - 1) ELSE s

\* s.rstrip("/")
RECURSIVE Rstrip(_)
Rstrip(s) ==
    IF Len(s) > 0 /\ s[Len(s)] = "/" THEN Rstrip(SubSeq(s, 1, Len(s) - 1)) ELSE s

\* "O" reads "https://www.linkedin.com", "U" the same in upper case, "M"
\* "https://WWW.LINKEDIN.COM" and "S" "https:"; an origin stands first in a
\* URL, and "S" only where urljoin resolved a network-path reference
LowerTok(c) ==
    CASE c = "U" -> "O"
      [] c = "M" -> "O"
      [] c = "P" -> "p"
      [] OTHER -> c

\* s.lower()
Lower(s) == [k \in 1..Len(s) |-> LowerTok(s[k])]

\* s.startswith("http")
StartsWithHttp(s) == Len(s) > 0 /\ s[1] \in {"O", "M", "S"}

\* the segments of a relative path as urljoin puts them together again: an
\* empty segment that is not the last one is left out, so a slash before a
\* slash, or before a profile path, which begins with one, goes
RECURSIVE Collapse(_)
Collapse(s) ==
    IF Len(s) < 2 THEN s
    ELSE Only({ (IF s[1] = "/" /\ t[1] \in PathTokens \cup {"/"} THEN <<>> ELSE <<s[1]>>)
                    \o Collapse(t) : t \in {Tail(s)} })

\* urljoin("https://www.linkedin.com", s) for s that does not start with
\* "http".  An upper-case absolute URL keeps its host and gets the scheme
\* lower-cased.  A reference that begins with "//" and a host is a
\* network-path reference and gets the scheme only; with an empty host the
\* two slashes go and the rest is read as a path.  A path that begins with
\* "/" is put behind the origin as it is, one that does not is put behind
\* the origin and a "/", its empty segments left out.  An empty query or
\* fragment is dropped by the re-assembly.
Urljoin(s) ==
    LET isAbs == Len(s) > 0 /\ s[1] = "U"
        body  == IF isAbs THEN Tail(s) ELSE s
    IN  Only({
          Only({
            (IF isAbs THEN <<"M">> \o path
             ELSE IF Len(path) >= 2 /\ path[1] = "/" /\ path[2] \in PathTokens
             THEN <<"S">> \o path
             ELSE IF Len(path) >= 2 /\ path[1] = "/" /\ path[2] = "/"
             THEN IF Len(path) >= 3 /\ path[3] = "x"
                  THEN <<"S">> \o path
                  ELSE <<"O">> \o SubSeq(path, 3, Len(path))
             ELSE IF Len(path) >= 1 /\ path[1] = "x" THEN <<"O", "/">> \o Collapse(path)
             ELSE <<"O">> \o path)
              \o (IF query = <<>> THEN <<>> ELSE <<"?">> \o query)
              \o (IF frag = <<>> THEN <<>> ELSE <<"#">> \o frag) :
            path \in {SplitHead(noFr, "?")}, query \in {SplitRest(noFr, "?")} }) :
          noFr \in {SplitHead(body, "#")}, frag \in {SplitRest(body, "#")} })

\* scrapers/company/utils.py normalize_profile_url
normalize_profile_url(url) ==
    IF url = <<>> THEN url
    ELSE LET joined == IF StartsWithHttp(url) THEN url ELSE Urljoin(url)
             cut    == SplitHead(SplitHead(joined, "?"), "#")
         IN  Lower(Rstrip(cut))

\* ------------------------------------------------------------------------
\* Employee cards of a search-results page
\* ------------------------------------------------------------------------
\* hrefs of the cards: two profiles, written relative or absolute, with and
\* without query string, fragment, trailing slash and upper-case letters;
\* <<>> is a missing or empty href attribute
ProfileHrefs ==
    { <<"p">>, <<"U", "P", "/", "?", "x">>, <<"P", "#", "x">>, <<"q">> }

CardHrefs == ProfileHrefs \cup {<<>>}

\* the profile handle of an href, read off the raw text: the lower-cased
\* profile path.  Two hrefs of ProfileHrefs differ only in origin, query
\* string, fragment, trailing slash or letter case iff their handles are equal.
Handle(href) ==
    LET k == CHOOSE j \in 1..Len(href) : href[j] \in PathTokens
    IN  LowerTok(href[k])

\* normalize_profile_url on the hrefs of the cards, tabulated
CardCanon == [h \in CardHrefs |-> normalize_profile_url(h)]

\* link    : the card has an a[href*='/in/'] (an ad has none)
\* visible : link_element.is_visible()
\* href    : link_element.get_attribute("href")
\* name    : the text the two name strategies find, "" when none
\* pos     : stripped text of div.t-14.t-black.t-normal, "" when absent
\* fault   : where a locator call of the page throws:
\*           "early" at the link check, "late" at the name lookup
\* Attributes the code never reads on a path are fixed on that path.
Cards ==
    [link : {TRUE}, visible : {TRUE}, href : ProfileHrefs, name : {"", "Ann"},
     pos : {"", "Ann", "Engineer"}, fault : {"none"}]
    \cup
    [link : {TRUE}, visible : {TRUE}, href : {<<"p">>, <<"q">>}, name : {"Ann"},
     pos : {""}, fault : {"early", "late"}]
    \cup
    [link : {TRUE}, visible : {TRUE}, href : {<<>>}, name : {""},
     pos : {"", "Engineer"}, fault : {"none"}]
    \cup
    [link : {TRUE}, visible : {FALSE}, href : {<<"p">>}, name : {""},
     pos : {"", "Engineer"}, fault : {"none"}]
    \cup
    [link : {FALSE}, visible : {FALSE}, href : {<<>>}, name : {""},
     pos : {""}, fault : {"none", "early"}]

\* a site that shows three kinds of card only: a plain profile, a profile
\* with a position line, an ad
SmallSite ==
    { [link |-> TRUE, visible |-> TRUE, href |-> <<"p">>, name |-> "Ann",
       pos |-> "", fault |-> "none"],
      [link |-> TRUE, visible |-> TRUE, href |-> <<"q">>, name |-> "Ann",
       pos |-> "Engineer", fault |-> "none"],
      [link |-> FALSE, visible |-> FALSE, href |-> <<>>, name |-> "",
       pos |-> "", fault |-> "none"] }

\* a card the spec's data model calls an entry: profile link, URL and name
WellFormed(card) ==
    card.link /\ card.visible /\ card.href # <<>> /\ card.name # "" /\ card.fault = "none"

\* a well-formed card that also shows a position text different from the name
HasPosition(card) ==
    WellFormed(card) /\ card.pos # "" /\ card.pos # card.name

\* models/company.py Employee: the fields of the record
EmployeeFields == {"name", "designation", "linkedin_url"}

\* pydantic BaseModel.__setattr__: assigning a name that is no field raises
SetAttrRaises(field) == field \notin EmployeeFields

NoUrl == <<"none">>

\* Employee()
NewEmployee == [name |-> "", designation |-> "", linkedin_url |-> NoUrl]

\* dict item assignment d[k] = v
Put(d, k, v) == [x \in DOMAIN d \cup {k} |-> IF x = k THEN v ELSE d[x]]

EmptyDict == [x \in {} |-> ""]

\* the body of the for loop of scrape_employees for one card: the result,
\* the seen-set and the Employee built
\*   res: "ad" (no profile link), "dup" (already processed), "stored",
\*        "noname" (nothing appended), "raised" (with the message)
ExtractItem(card, processed) ==
    LET canon   == CardCanon[card.href]
        hasUrl  == card.link /\ card.visible /\ card.href # <<>>
        isDup   == hasUrl /\ canon \in processed
        seen    == IF hasUrl /\ ~isDup THEN processed \cup {canon} ELSE processed
        lateErr == hasUrl /\ ~isDup /\ card.fault = "late"
        nm      == IF hasUrl /\ ~isDup THEN card.name ELSE ""
        emp     == [NewEmployee EXCEPT !.name = nm,
                        !.linkedin_url = IF hasUrl THEN canon ELSE NoUrl]
        \* employee.headline = headline, reached when the text differs from the name
        setsPos == card.pos # "" /\ card.pos # nm
    IN  IF card.fault = "early"
        THEN [res |-> "raised", msg |-> "error", seen |-> processed, emp |-> NewEmployee]
        ELSE IF ~card.link
        THEN [res |-> "ad", msg |-> "", seen |-> processed, emp |-> NewEmployee]
        ELSE IF isDup
        THEN [res |-> "dup", msg |-> "", seen |-> processed, emp |-> NewEmployee]
        ELSE IF lateErr
        \* the locator of the name raises (line 106): the URL is set, the name is not
        THEN [res |-> "raised", msg |-> "error", seen |-> seen,
              emp |-> [emp EXCEPT !.name = ""]]
        ELSE IF setsPos /\ SetAttrRaises("headline")
        THEN [res |-> "raised", msg |-> "error", seen |-> seen, emp |-> emp]
        ELSE IF emp.name # ""
        THEN [res |-> "stored", msg |-> "", seen |-> seen, emp |-> emp]
        ELSE [res |-> "noname", msg |-> "", seen |-> seen, emp |-> emp]

\* ------------------------------------------------------------------------
\* Orchestrator helpers (scrapers/company/get_company.py)
\* ------------------------------------------------------------------------
CompanyFlags == {"SHOWCASE_PAGES", "AFFILIATED_COMPANIES"}

\* the keys of scraping_errors: <<section, -1>> for a section,
\* <<"employee_extraction", i>> for the card with index i of a page
SectionKey(step) == <<step, -1>>

ItemKey(idx) == <<"employee_extraction", idx>>

\* PersonScraper.scrape_profile calls its steps bare: an exception of a step
\* leaves scrape_profile
PropagateStep(out, nextpc) == IF out = "raise" THEN "raised" ELSE nextpc

\* a step without the try/except: its exception reaches the caller
RethrowStep(out, nextpc) == IF out = "raise" THEN "raised" ELSE nextpc

\* try: <step> except Exception: ... around each step of
\* CompanyScraper.scrape_profile: control goes on to the next step whether
\* the step raised or not
CatchStep(out, nextpc) == nextpc

\* except Exception as e: company.scraping_errors[step] = str(e)
RecordError(errs, step, out) ==
    IF out = "raise" THEN Put(errs, SectionKey(step), "error") ELSE errs

\* SHOWCASE_PAGES in fields or AFFILIATED_COMPANIES in fields
AffiliatedSelected(flds) ==
    "SHOWCASE_PAGES" \in flds \/ "AFFILIATED_COMPANIES" \in flds

EmployeesSelectedFromZero(mp) == mp >= 0

\* if max_pages > 0
EmployeesSelected(mp) == mp > 0

\* a list that never appears ends the loop with an error instead of a break
WaitForListStrict(kind) ==
    CASE kind = "ok" -> "extract"
      [] kind = "empty" -> "break"
      [] OTHER -> "raise"

\* wait_for_selector(...) / count() at the top of the while loop:
\* TimeoutError and item_count == 0 break, any other exception propagates
WaitForList(kind) ==
    CASE kind = "ok" -> "extract"
      [] kind = "timeout" -> "break"
      [] kind = "empty" -> "break"
      [] OTHER -> "raise"

\* the loop is left at the first card that raises
AfterItemErrorBreak(idx, count) == count

\* except Exception ... continue: the for loop goes on with the next card
AfterItemError(idx, count) == idx + 1

\* if page_num < max_pages
MayAdvance(pn, mp) == pn < mp

\* ------------------------------------------------------------------------
\* State
\* ------------------------------------------------------------------------
VARIABLES
    nurl,      \* normaliser harness: the raw URL under test
    nonce,     \* normalize_profile_url(nurl), <<"-">> before the call
    ntwice,    \* normalize_profile_url(nonce), <<"-">> before the call
    npc,       \* normaliser harness position
    \* --- CompanyScraper.scrape_profile and scrape_employees ---
    fields,          \* the CompanyScrapingFields mask
    max_pages,       \* the employees page budget
    srcPages,        \* pages of search results the site has for the company
    site,            \* the cards the site can show
    cpc,             \* position in scrape_profile / scrape_employees
    page_num,        \* scrape_employees: page_num
    item_count,      \* scrape_employees: item_count of the current page
    idx,             \* scrape_employees: i of the for loop
    processed_urls,  \* scrape_employees: processed_urls
    employees,       \* company.employees
    scraping_errors, \* company.scraping_errors
    visited,         \* pages the browser was sent to
    \* --- observations of the run (history) ---
    ran,             \* steps that were invoked
    raisedSteps,     \* steps whose exception reached scrape_profile
    swallowedSteps,  \* steps that swallowed a section-level exception
    clicks,          \* clicks on the Next control
    extracted,       \* page numbers whose cards were walked
    outcome,         \* how the collector ended
    healthy,         \* every page so far loaded with cards and Next worked
    stopCause,       \* what kept the collector from advancing, "none" so far
    itemsDone,       \* cards of the current page that went through the loop body
    storedFrom,      \* the handle of the raw href behind each entry of employees
    metHandles,      \* handles of the hrefs of the cards met so far
    wellMet,         \* handles met on a well-formed card
    metTwice,        \* handles met on two well-formed cards
    firstOk,         \* handles whose first card was well-formed and did not raise
    raisedIdx,       \* indexes of the cards whose extraction raised
    failedItems,     \* number of cards whose extraction raised
    appended,        \* every Employee ever passed to add_employee, in order
    owed,            \* handles of the new cards that had link, name and position text
    \* --- PersonScraper.scrape_profile ---
    pfields,         \* the PersonScrapingFields mask
    ppc,             \* the step scrape_profile is at, "returned" or "raised"
    prunning,        \* the step has been called and has not come back yet
    ppage,           \* the URL the shared page is at
    perrors,         \* person.scraping_errors
    pstarted,        \* steps called so far, in order
    pfinished,       \* steps that returned normally
    praised,         \* steps that raised
    ptouched,        \* sections whose fields a step may have written
    \* --- text functions of scrapers/person/utils.py, one call ---
    fin,             \* the argument
    fout,            \* the value returned, NotYet before the call
    fpc,             \* "idle", "in" (argument chosen) or "out" (returned)
    \* --- the /about page: scrape_company_details, scrape_affiliated_pages ---
    rows,            \* the dt/dd rows of the page
    sidebar,         \* the li items under "Affiliated pages"
    apc,             \* "idle", "details", "sidebar", "modal" or "done"
    ai,              \* index of the next row or item
    specialties,     \* company.specialties
    showcase_pages,  \* company.showcase_pages
    affiliated_companies, \* company.affiliated_companies
    \* --- scrape_company_followers ---
    wpc,             \* "idle", "goto", "loop", "count", "items" or "returned"
    wbutton,         \* "Show more results" is there and visible
    wclicks,         \* clicks on it so far, counted modulo MaxClicks + 1
    witems,          \* the li items of the dialog
    wi,              \* index of the next item
    \* --- LinkedInSession ---
    sbrowser,        \* _browser_session: the number of the BrowserContextManager, 0 for None
    scontext,        \* _context is set
    spage,           \* _page is set
    sauth,           \* _authenticated
    sgood,           \* an enter succeeded and no close came after it
    shist,           \* the operations so far, each with how it ended
    snav,            \* navigations made for get_profile
    sexits,          \* __aexit__ calls on each BrowserContextManager made, in order
    stasks,          \* for each task, the await of __aenter__ or close it is suspended in
    \* --- _scrape_connections_list ---
    kpage,        \* the page the browser ends on and the profile links it shows
    kurl,         \* current_url: the markers page.url.lower() contains
    kpc,          \* position in _scrape_connections_list
    kstrategy,    \* the parsing strategy at work: cards, list or generic
    ki,           \* elements of the current strategy's list already visited
    kseen,        \* seen_urls of the current strategy
    kadded,       \* connections_added of the current strategy
    kran,         \* history: the strategies entered, in order
    connections   \* person.connections

normVars == <<nurl, nonce, ntwice, npc>>

inputVars == <<fields, max_pages, srcPages, site>>

loopVars == <<page_num, item_count, idx, processed_urls>>

histVars == <<clicks, extracted, outcome, healthy, stopCause, itemsDone, storedFrom,
              metHandles, wellMet, metTwice, firstOk, raisedIdx, failedItems,
                   appended, owed>>

companyVars == <<fields, max_pages, srcPages, site, cpc, page_num, item_count, idx,
                 processed_urls, employees, scraping_errors, visited, ran,
                 raisedSteps, swallowedSteps, clicks, extracted, outcome,
                 healthy, stopCause, itemsDone, storedFrom, metHandles, wellMet, metTwice,
                 firstOk, raisedIdx, failedItems,
                   appended, owed>>

vars == <<nurl, nonce, ntwice, npc, fields, max_pages, srcPages, site, cpc,
          page_num, item_count, idx, processed_urls, employees,
          scraping_errors, visited, ran, raisedSteps, swallowedSteps, clicks,
          extracted, outcome, healthy, stopCause, itemsDone, storedFrom, metHandles,
          wellMet, metTwice, firstOk, raisedIdx, failedItems,
                   appended, owed,
          pfields, ppc, prunning, ppage, perrors, pstarted, pfinished,
          praised, ptouched, fin, fout, fpc,
          rows, sidebar, apc, ai, specialties, showcase_pages, affiliated_companies,
          wpc, wbutton, wclicks, witems, wi,
          sbrowser, scontext, spage, sauth, sgood, shist, snav, sexits, stasks,
          kpage, kurl, kpc, kstrategy, ki, kseen, kadded, kran, connections>>

personVars == <<pfields, ppc, prunning, ppage, perrors, pstarted, pfinished,
                praised, ptouched>>

NotYet == <<"-">>

textVars == <<fin, fout, fpc>>

\* the state outside the three scrapers
aboutVars == <<rows, sidebar, apc, ai, specialties, showcase_pages, affiliated_companies>>

followerVars == <<wpc, wbutton, wclicks, witems, wi>>

sessionVars == <<sbrowser, scontext, spage, sauth, sgood, shist, snav, sexits, stasks>>

contactVars == <<kpage, kurl, kpc, kstrategy, ki, kseen, kadded, kran, connections>>

pageVars == <<aboutVars, followerVars, sessionVars, contactVars>>

extVars == <<textVars, pageVars>>

\* the state of the company scrape right after Company(linkedin_url=...)
CompanyFresh ==
    /\ cpc = "basic_info"
    /\ page_num = 1
    /\ item_count = 0
    /\ idx = 0
    /\ processed_urls = {}
    /\ employees = <<>>
    /\ scraping_errors = EmptyDict
    /\ visited = {"about"}
    /\ ran = {}
    /\ raisedSteps = {}
    /\ swallowedSteps = {}
    /\ clicks = 0
    /\ extracted = {}
    /\ outcome = "none"
    /\ healthy = TRUE
    /\ stopCause = "none"
    /\ itemsDone = 0
    /\ storedFrom = <<>>
    /\ metHandles = {}
    /\ wellMet = {}
    /\ metTwice = {}
    /\ firstOk = {}
    /\ raisedIdx = {}
    /\ failedItems = 0
    /\ appended = <<>>
    /\ owed = {}

NormIdle ==
    /\ nurl = <<>>
    /\ nonce = NotYet
    /\ ntwice = NotYet
    /\ npc = "idle"

PersonIdle ==
    /\ pfields = {}
    /\ ppc = "idle"
    /\ prunning = FALSE
    /\ ppage = "none"
    /\ perrors = EmptyDict
    /\ pstarted = <<>>
    /\ pfinished = {}
    /\ praised = {}
    /\ ptouched = {}

TextIdle ==
    /\ fin = <<>>
    /\ fout = NotYet
    /\ fpc = "idle"

AboutIdle ==
    /\ rows = <<>>
    /\ sidebar = <<>>
    /\ apc = "idle"
    /\ ai = 0
    /\ specialties = <<>>
    /\ showcase_pages = <<>>
    /\ affiliated_companies = <<>>

FollowersIdle ==
    /\ wpc = "idle"
    /\ wbutton = FALSE
    /\ wclicks = 0
    /\ witems = <<>>
    /\ wi = 0

\* the tasks that call the operations of one session
MaxTasks == 2

Tasks == 1..MaxTasks

\* a task that is in no operation of the session
IdleTask == [pc |-> "idle", why |-> "none"]

\* the state after LinkedInSession.__init__
SessionNew ==
    /\ stasks = [t \in Tasks |-> IdleTask]
    /\ sbrowser = 0
    /\ scontext = FALSE
    /\ spage = FALSE
    /\ sauth = FALSE
    /\ sgood = FALSE
    /\ shist = <<>>
    /\ snav = 0
    /\ sexits = <<>>

\* the page shown when no connections list is being read
NoPage == [url |-> {}, n |-> 0, distinct |-> "many", names |-> "structured", cards |-> FALSE]

\* a new Person has no connections and the list has not been asked for
ContactsIdle ==
    /\ kpage = NoPage
    /\ kurl = {}
    /\ kpc = "idle"
    /\ kstrategy = "none"
    /\ ki = 0
    /\ kseen = {}
    /\ kadded = 0
    /\ kran = <<>>
    /\ connections = <<>>

PageIdle == AboutIdle /\ FollowersIdle /\ SessionNew /\ ContactsIdle

ExtIdle == TextIdle /\ PageIdle

\* ------------------------------------------------------------------------
\* Normaliser harness: apply normalize_profile_url once, then again
\* ------------------------------------------------------------------------
NormInit ==
    /\ nurl \in RawUrls
    /\ nonce = NotYet
    /\ ntwice = NotYet
    /\ npc = "raw"
    /\ fields = {}
    /\ max_pages = 0
    /\ srcPages = 0
    /\ site = {}
    /\ CompanyFresh
    /\ PersonIdle
    /\ ExtIdle

NormalizeOnce ==
    /\ npc = "raw"
    /\ nonce' = normalize_profile_url(nurl)
    /\ npc' = "once"
    /\ UNCHANGED <<nurl, ntwice>>
    /\ UNCHANGED <<companyVars, personVars, extVars>>

NormalizeAgain ==
    /\ npc = "once"
    /\ ntwice' = normalize_profile_url(nonce)
    /\ npc' = "twice"
    /\ UNCHANGED <<nurl, nonce>>
    /\ UNCHANGED <<companyVars, personVars, extVars>>

NormNext == NormalizeOnce \/ NormalizeAgain

SpecNorm == NormInit /\ [][NormNext]_vars

\* ------------------------------------------------------------------------
\* CompanyScraper.scrape_profile, from the creation of the Company on
\* ------------------------------------------------------------------------
CompanyInit ==
    /\ fields \in SUBSET CompanyFlags
    /\ max_pages \in 0..MaxBudget
    /\ srcPages \in 0..MaxSrcPages
    /\ site = SmallSite
    /\ CompanyFresh
    /\ NormIdle
    /\ PersonIdle
    /\ ExtIdle

\* try: await self._scrape_basic_info(company); wait  except: record
ScrapeBasicInfo ==
    /\ cpc = "basic_info"
    /\ \E out \in {"ok", "raise"} :
        /\ ran' = ran \cup {"basic_info"}
        /\ raisedSteps' = IF out = "raise" THEN raisedSteps \cup {"basic_info"} ELSE raisedSteps
        /\ scraping_errors' = RecordError(scraping_errors, "basic_info", out)
        /\ cpc' = CatchStep(out, "details")
    /\ UNCHANGED <<inputVars, loopVars, histVars, employees, visited, swallowedSteps>>
    /\ UNCHANGED <<normVars, personVars, extVars>>

\* try: await scrape_company_details(self.page, company); wait  except: record
ScrapeDetails ==
    /\ cpc = "details"
    /\ \E out \in {"ok", "raise"} :
        /\ ran' = ran \cup {"details"}
        /\ raisedSteps' = IF out = "raise" THEN raisedSteps \cup {"details"} ELSE raisedSteps
        /\ scraping_errors' = RecordError(scraping_errors, "details", out)
        /\ cpc' = CatchStep(out, "affiliated")
    /\ UNCHANGED <<inputVars, loopVars, histVars, employees, visited, swallowedSteps>>
    /\ UNCHANGED <<normVars, personVars, extVars>>

\* scrape_affiliated_pages and the wait behind it, under the orchestrator's
\* try/except (get_company.py 82-86).  In the function:
\*   "raise_nav"  : page.goto or the wait of lines 33-34 raises, outside the
\*                  function's own try: reaches the orchestrator
\*   "absent"     : the heading or the list is not visible: plain return
\*   "swallowed"  : an exception inside the function's try (the list was
\*                  found; the Step 2 test reads a flag the enum does not
\*                  have): caught by its except Exception: pass
\* After a return of the function the wait of line 84 runs, and it too can
\* raise: a step whose exception was swallowed can still leave its key.
ScrapeAffiliated ==
    /\ cpc = "affiliated"
    /\ AffiliatedSelected(fields)
    /\ \E how \in {"raise_nav", "absent", "swallowed"} :
       \E wait \in (IF how = "raise_nav" THEN {"not_reached"} ELSE {"ok", "raises"}) :
        LET out == IF how = "raise_nav" \/ wait = "raises" THEN "raise" ELSE "ok"
        IN  /\ ran' = ran \cup {"affiliated_pages"}
            /\ raisedSteps' = IF out = "raise" THEN raisedSteps \cup {"affiliated_pages"}
                              ELSE raisedSteps
            /\ swallowedSteps' = IF how = "swallowed"
                                 THEN swallowedSteps \cup {"affiliated_pages"}
                                 ELSE swallowedSteps
            /\ scraping_errors' = RecordError(scraping_errors, "affiliated_pages", out)
            /\ cpc' = CatchStep(out, "employees")
    /\ UNCHANGED <<inputVars, loopVars, histVars, employees, visited>>
    /\ UNCHANGED <<normVars, personVars, extVars>>

SkipAffiliated ==
    /\ cpc = "affiliated"
    /\ ~AffiliatedSelected(fields)
    /\ cpc' = "employees"
    /\ UNCHANGED <<inputVars, loopVars, histVars, employees, visited, ran,
                   raisedSteps, swallowedSteps, scraping_errors>>
    /\ UNCHANGED <<normVars, personVars, extVars>>

SkipEmployees ==
    /\ cpc = "employees"
    /\ ~EmployeesSelected(max_pages)
    /\ cpc' = "returned"
    /\ UNCHANGED <<inputVars, loopVars, histVars, employees, visited, ran,
                   raisedSteps, swallowedSteps, scraping_errors>>
    /\ UNCHANGED <<normVars, personVars, extVars>>

\* scrape_employees, lines 24-52: go to /people when the browser is on the
\* /about page (it is not when the site answered the /about request with a
\* redirect), click the employees link, test whether the browser is on the
\* search-results page.  Only the goto and the wait behind the guard of line
\* 27 can raise: the click sits in a try that catches everything
EmployeesEnter ==
    /\ cpc = "employees"
    /\ EmployeesSelected(max_pages)
    /\ ran' = ran \cup {"employees"}
    /\ \E onAbout \in BOOLEAN, nav \in {"ok", "raise"}, onSearch \in BOOLEAN :
        /\ (nav = "raise" => onAbout)
        /\ visited' = visited \cup (IF onAbout THEN {"people"} ELSE {}) \cup
                      (IF nav = "ok" /\ onSearch THEN {"search"} ELSE {})
        /\ raisedSteps' = IF nav = "raise" THEN raisedSteps \cup {"employees"} ELSE raisedSteps
        /\ scraping_errors' = RecordError(scraping_errors, "employees", nav)
        /\ outcome' = CASE nav = "raise" -> "Raised"
                        [] onSearch -> "none"
                        [] OTHER -> "NotOnResults"
        /\ cpc' = CASE nav = "raise" -> CatchStep(nav, "returned")
                    [] onSearch -> "emp_wait"
                    [] OTHER -> "emp_return"
    /\ UNCHANGED <<inputVars, loopVars, employees, swallowedSteps, clicks,
                   extracted, healthy, stopCause, itemsDone, storedFrom, metHandles,
                   wellMet, metTwice, firstOk, raisedIdx, failedItems,
                   appended, owed>>
    /\ UNCHANGED <<normVars, personVars, extVars>>

\* top of the while loop: wait for the result list and count the cards
EmployeesWait ==
    /\ cpc = "emp_wait"
    /\ page_num <= max_pages
    /\ \E kind \in (IF page_num <= srcPages THEN {"ok", "timeout", "empty", "error"}
                    ELSE {"timeout"}),
          count \in 1..MaxItems :
        LET todo == WaitForList(kind)
        IN  /\ (kind # "ok" => count = 1)
            /\ item_count' = IF todo = "extract" THEN count ELSE 0
            /\ idx' = 0
            /\ itemsDone' = 0
            /\ extracted' = IF todo = "extract" THEN extracted \cup {page_num} ELSE extracted
            /\ healthy' = (healthy /\ kind = "ok")
            /\ stopCause' = IF kind \in {"timeout", "empty"} THEN kind ELSE stopCause
            /\ outcome' = CASE todo = "extract" -> outcome
                            [] todo = "break" -> "Exhausted"
                            [] OTHER -> "Raised"
            /\ raisedSteps' = IF todo = "raise" THEN raisedSteps \cup {"employees"}
                              ELSE raisedSteps
            /\ scraping_errors' = IF todo = "raise"
                                  THEN RecordError(scraping_errors, "employees", "raise")
                                  ELSE scraping_errors
            /\ cpc' = CASE todo = "extract" -> "emp_item"
                        [] todo = "break" -> "emp_return"
                        [] OTHER -> CatchStep("raise", "returned")
    /\ UNCHANGED <<inputVars, page_num, processed_urls, employees, visited, ran,
                   swallowedSteps, clicks, storedFrom, metHandles, wellMet, metTwice,
                   firstOk, raisedIdx, failedItems,
                   appended, owed>>
    /\ UNCHANGED <<normVars, personVars, extVars>>

\* one pass of the for loop over the cards of the page
EmployeesItem ==
    /\ cpc = "emp_item"
    /\ idx < item_count
    /\ \E card \in site :
        LET r     == ExtractItem(card, processed_urls)
            hasH  == card.link /\ card.href # <<>>
            h     == IF hasH THEN Handle(card.href) ELSE "-"
            next  == IF r.res = "raised" THEN AfterItemError(idx, item_count) ELSE idx + 1
        IN  /\ processed_urls' = r.seen
            /\ employees' = IF r.res = "stored" THEN Append(employees, r.emp) ELSE employees
            /\ appended' = IF r.res = "stored" THEN Append(appended, r.emp) ELSE appended
            /\ owed' = IF HasPosition(card) /\ CardCanon[card.href] \notin processed_urls
                     THEN owed \cup {h} ELSE owed
            /\ storedFrom' = IF r.res = "stored" THEN Append(storedFrom, h) ELSE storedFrom
            /\ scraping_errors' = IF r.res = "raised"
                                  THEN Put(scraping_errors, ItemKey(idx), r.msg)
                                  ELSE scraping_errors
            /\ raisedIdx' = IF r.res = "raised" THEN raisedIdx \cup {idx} ELSE raisedIdx
            /\ failedItems' = IF r.res = "raised" THEN failedItems + 1 ELSE failedItems
            /\ metHandles' = IF hasH THEN metHandles \cup {h} ELSE metHandles
            /\ wellMet' = IF WellFormed(card) THEN wellMet \cup {h} ELSE wellMet
            /\ metTwice' = IF WellFormed(card) /\ h \in wellMet
                            THEN metTwice \cup {h} ELSE metTwice
            /\ firstOk' = IF WellFormed(card) /\ h \notin metHandles /\ r.res # "raised"
                          THEN firstOk \cup {h} ELSE firstOk
            /\ itemsDone' = itemsDone + 1
            /\ idx' = next
            /\ cpc' = IF next >= item_count THEN "emp_advance" ELSE "emp_item"
    /\ UNCHANGED <<inputVars, page_num, item_count, visited, ran, raisedSteps,
                   swallowedSteps, clicks, extracted, outcome, healthy, stopCause>>
    /\ UNCHANGED <<normVars, personVars, extVars>>

\* lines 169-185: click Next while the budget allows, else leave the loop
EmployeesAdvance ==
    /\ cpc = "emp_advance"
    /\ IF MayAdvance(page_num, max_pages)
       THEN \E next \in (IF page_num < srcPages
                         THEN {"clicked", "hidden", "wait_raises"} ELSE {"hidden"}) :
                \* "wait_raises": the button was clicked (line 178) and the wait
                \* of line 179 raised; the except of line 181 leaves the loop
                \* before page_num += 1
                /\ clicks' = IF next \in {"clicked", "wait_raises"} THEN clicks + 1 ELSE clicks
                /\ page_num' = IF next = "clicked" THEN page_num + 1 ELSE page_num
                /\ healthy' = (healthy /\ next = "clicked")
                /\ stopCause' = CASE next = "hidden" -> "next_hidden"
                                  [] next = "wait_raises" -> "wait_raised"
                                  [] OTHER -> stopCause
                /\ outcome' = IF next = "clicked" THEN outcome ELSE "Exhausted"
                /\ cpc' = IF next = "clicked" THEN "emp_wait" ELSE "emp_return"
       ELSE /\ outcome' = "BudgetReached"
            /\ cpc' = "emp_return"
            /\ UNCHANGED <<clicks, page_num, healthy, stopCause>>
    /\ UNCHANGED <<inputVars, item_count, idx, processed_urls, employees,
                   scraping_errors, visited, ran, raisedSteps, swallowedSteps,
                   extracted, itemsDone, storedFrom, metHandles, wellMet, metTwice,
                   firstOk, raisedIdx, failedItems,
                   appended, owed>>
    /\ UNCHANGED <<normVars, personVars, extVars>>

\* scrape_employees has returned; the orchestrator's wait after it is still
\* inside the try of the employees step
EmployeesReturn ==
    /\ cpc = "emp_return"
    /\ \E out \in {"ok", "raise"} :
        /\ raisedSteps' = IF out = "raise" THEN raisedSteps \cup {"employees"} ELSE raisedSteps
        /\ scraping_errors' = RecordError(scraping_errors, "employees", out)
        /\ cpc' = CatchStep(out, "returned")
    /\ UNCHANGED <<inputVars, loopVars, histVars, employees, visited, ran, swallowedSteps>>
    /\ UNCHANGED <<normVars, personVars, extVars>>

CompanyNext ==
    \/ ScrapeBasicInfo
    \/ ScrapeDetails
    \/ ScrapeAffiliated
    \/ SkipAffiliated
    \/ SkipEmployees
    \/ EmployeesEnter
    \/ EmployeesWait
    \/ EmployeesItem
    \/ EmployeesAdvance
    \/ EmployeesReturn

Spec == CompanyInit /\ [][CompanyNext]_vars

\* ------------------------------------------------------------------------
\* scrape_employees on its own: a company scrape with the MINIMAL mask that
\* has reached the employees step without errors, on a site that can show
\* every kind of card
\* ------------------------------------------------------------------------
CollectorInit ==
    /\ fields = {}
    /\ max_pages \in 1..MaxBudget
    /\ srcPages \in 0..MaxSrcPages
    /\ site = Cards
    /\ cpc = "employees"
    /\ page_num = 1
    /\ item_count = 0
    /\ idx = 0
    /\ processed_urls = {}
    /\ employees = <<>>
    /\ scraping_errors = EmptyDict
    /\ visited = {"about"}
    /\ ran = {"basic_info", "details"}
    /\ raisedSteps = {}
    /\ swallowedSteps = {}
    /\ clicks = 0
    /\ extracted = {}
    /\ outcome = "none"
    /\ healthy = TRUE
    /\ stopCause = "none"
    /\ itemsDone = 0
    /\ storedFrom = <<>>
    /\ metHandles = {}
    /\ wellMet = {}
    /\ metTwice = {}
    /\ firstOk = {}
    /\ raisedIdx = {}
    /\ failedItems = 0
    /\ appended = <<>>
    /\ owed = {}
    /\ NormIdle
    /\ PersonIdle
    /\ ExtIdle

CollectorNext ==
    \/ EmployeesEnter
    \/ EmployeesWait
    \/ EmployeesItem
    \/ EmployeesAdvance
    \/ EmployeesReturn

SpecCollector == CollectorInit /\ [][CollectorNext]_vars

\* ------------------------------------------------------------------------
\* PersonScraper.scrape_profile, from the creation of the Person on
\* ------------------------------------------------------------------------
PersonSteps ==
    <<"basic_info", "experience", "education", "interests", "accomplishments", "contacts">>

PersonFlags == {PersonSteps[k] : k \in 1..Len(PersonSteps)}

StepIndex(step) == CHOOSE k \in 1..Len(PersonSteps) : PersonSteps[k] = step

\* the statement after the if-block of a step
NextPc(step) ==
    IF StepIndex(step) = Len(PersonSteps) THEN "returned"
    ELSE PersonSteps[StepIndex(step) + 1]

StepSelectedAlways(step, flds) == TRUE

\* if ScrapingFields.<STEP> in fields
StepSelected(step, flds) == step \in flds

\* where the step sends the shared page before it reads it; "same" when it
\* does not navigate.  scrape_experiences and scrape_accomplishments are
\* plain functions written for the sync API: on the async page their
\* page.goto(...) only creates a coroutine that is never awaited.
StepUrl(step) ==
    CASE step = "education" -> "details/education"
      [] step = "interests" -> "details/interests"
      [] step = "contacts" -> "profile"
      [] OTHER -> "same"

\* how a step can come back to scrape_profile.
\*  - _scrape_basic_info and scrape_contacts catch everything inside; the
\*    awaited waits around them can still raise (page closed)
\*  - await scrape_experiences(...) / await scrape_accomplishments(...):
\*    the callee is a plain def that returns None, so the await raises
\*  - scrape_educations / scrape_interests: await scroll_to_half(page), a
\*    plain def returning None, raises before the try block is entered
StepOutcomes(step) ==
    IF step \in {"basic_info", "contacts"} THEN {"ok", "raise"} ELSE {"raise"}

\* sections whose fields the step can write before it comes back; on a page
\* that shows none of the elements looked for nothing is written
StepWrites(step, out) ==
    IF step \in {"basic_info", "contacts"} THEN {step} ELSE {}

\* where a step can leave the shared page when it comes back.  Inside
\* scrape_contacts _scrape_connections_list goes on from the profile
\* (contacts.py:127-245): to the page behind the connections link, by goto
\* to the own connections page and from there to the My Network page, or
\* to the network-manager people page; each goto can fail and leave the
\* page where it was.  The other steps stay where their first goto put them
StepLeaves(step) ==
    IF step = "contacts"
    THEN {"profile", "search/results/people", "mynetwork/invite-connect/connections",
          "mynetwork", "mynetwork/network-manager/people"}
    ELSE {"same"}

PersonInit ==
    /\ pfields \in SUBSET PersonFlags
    /\ ppc = PersonSteps[1]
    /\ prunning = FALSE
    /\ ppage = "profile"
    /\ perrors = EmptyDict
    /\ pstarted = <<>>
    /\ pfinished = {}
    /\ praised = {}
    /\ ptouched = {}
    /\ NormIdle
    /\ fields = {}
    /\ max_pages = 0
    /\ srcPages = 0
    /\ site = {}
    /\ CompanyFresh
    /\ ExtIdle

\* if <STEP> in fields: the step is called and takes over the page.  Its
\* first page.goto(...) brings the page to the step's URL, or fails and
\* leaves the page where it was: the goto of scrape_educations (line 28) and
\* of scrape_interests (line 21) is outside every try and the step raises
\* from there, the one of scrape_contacts is caught inside
PersonStepStart ==
    /\ ppc \in PersonFlags
    /\ ~prunning
    /\ StepSelected(ppc, pfields)
    /\ prunning' = TRUE
    /\ pstarted' = Append(pstarted, ppc)
    /\ \E arrived \in BOOLEAN :
          ppage' = IF StepUrl(ppc) = "same" \/ ~arrived THEN ppage ELSE StepUrl(ppc)
    /\ UNCHANGED <<pfields, ppc, perrors, pfinished, praised, ptouched>>
    /\ UNCHANGED <<normVars, companyVars, extVars>>

\* the step comes back: normally, and scrape_profile goes on, or with an
\* exception, which nothing in scrape_profile catches
PersonStepFinish ==
    /\ ppc \in PersonFlags
    /\ prunning
    /\ \E out \in StepOutcomes(ppc), url \in StepLeaves(ppc) :
      \E written \in SUBSET StepWrites(ppc, out) :
        /\ ptouched' = ptouched \cup written
        /\ pfinished' = IF out = "ok" THEN pfinished \cup {ppc} ELSE pfinished
        /\ praised' = IF out = "raise" THEN praised \cup {ppc} ELSE praised
        /\ ppc' = PropagateStep(out, NextPc(ppc))
        /\ ppage' = IF url = "same" THEN ppage ELSE url
    /\ prunning' = FALSE
    /\ UNCHANGED <<pfields, perrors, pstarted>>
    /\ UNCHANGED <<normVars, companyVars, extVars>>

\* the flag is not in fields: the if-block is passed over
PersonStepSkip ==
    /\ ppc \in PersonFlags
    /\ ~prunning
    /\ ~StepSelected(ppc, pfields)
    /\ ppc' = NextPc(ppc)
    /\ UNCHANGED <<pfields, prunning, ppage, perrors, pstarted, pfinished, praised, ptouched>>
    /\ UNCHANGED <<normVars, companyVars, extVars>>

PersonNext == PersonStepStart \/ PersonStepFinish \/ PersonStepSkip

SpecPerson == PersonInit /\ [][PersonNext]_vars

\* ------------------------------------------------------------------------
\* Lines of text (scrapers/person/utils.py).  "\n" is the line break; like
\* the blank it is a word of its own.
\* ------------------------------------------------------------------------
MaxSkills == 3

\* ---- texts as strings of characters ----
\* A string of the program is the sequence of its characters.  A printable
\* ASCII character, the tabulator "\t", the line feed "\n", the form feed
\* "\f" and the carriage return "\r" stand for themselves; every other
\* character is written as the name of its code point, "U+00B7" for the
\* middle dot.  The characters of the texts are these ASCII characters and
\* NamedCharacters: the rest of Latin-1, the white space of Unicode and the
\* bullet.

HexDigits == <<"0", "1", "2", "3", "4", "5", "6", "7", "8", "9", "A", "B", "C", "D", "E", "F">>

\* the name of the character with the code point n
CodePointName(n) ==
    "U+" \o HexDigits[((n \div 4096) % 16) + 1] \o HexDigits[((n \div 256) % 16) + 1]
         \o HexDigits[((n \div 16) % 16) + 1] \o HexDigits[(n % 16) + 1]

\* the code points str.isspace() is true for, beyond " ", "\t", "\n", "\f"
\* and "\r"
SpaceCodePoints ==
    {11} \cup 28..31 \cup {133, 160, 5760} \cup 8192..8202
    \cup {8232, 8233, 8239, 8287, 12288}

\* the code points of the characters written by name
NamedCodePoints == SpaceCodePoints \cup 160..255 \cup {8226}

NamedCharacters == {CodePointName(n) : n \in NamedCodePoints}

\* the separator between the parts of a text, the middle dot
Sep == "U+00B7"

\* the bullet
Bullet == "U+2022"

\* the characters of an ASCII string
Str(s) == [k \in 1..Len(s) |-> SubSeq(s, k, k)]

\* the characters of a word: a character written by name, or the
\* characters of a run of ASCII characters
Chars(w) == IF w \in NamedCharacters THEN <<w>> ELSE Str(w)

\* the characters of a text that is given as its words
RECURSIVE Flat(_)
Flat(t) ==
    IF t = <<>> THEN <<>>
    ELSE IF Len(t) = 1 THEN Chars(t[1])
    ELSE Flat(SubSeq(t, 1, Len(t) \div 2)) \o Flat(SubSeq(t, Len(t) \div 2 + 1, Len(t)))

UpperLetters == Str("ABCDEFGHIJKLMNOPQRSTUVWXYZ")

LowerLetters == Str("abcdefghijklmnopqrstuvwxyz")

\* the code points of the upper-case letters of Latin-1; the lower-case
\* letter stands 32 places behind
UpperCodePoints == (192..222) \ {215}

\* s[k]
CharAt(s, k) == s[k]

\* every character str.lower() changes, with the character it becomes
LowerMap ==
    LET pairs == {<<UpperLetters[k], LowerLetters[k]>> : k \in 1..26}
                 \cup {<<CodePointName(n), CodePointName(n + 32)>> : n \in UpperCodePoints}
    IN  [c \in {p[1] : p \in pairs} |-> (CHOOSE p \in pairs : p[1] = c)[2]]

LowerChar(c) == IF c \in DOMAIN LowerMap THEN LowerMap[c] ELSE c

\* s.lower()
LowerStr(s) == [k \in 1..Len(s) |-> LowerChar(s[k])]

\* the characters str.strip(), str.split() and \s take for white space
WhiteSpace ==
    {" ", "\t", "\n", "\f", "\r"} \cup {CodePointName(n) : n \in SpaceCodePoints}

\* s.lstrip()
RECURSIVE LstripStr(_)
LstripStr(s) ==
    IF Len(s) > 0 /\ CharAt(s, 1) \in WhiteSpace THEN LstripStr(SubSeq(s, 2, Len(s)))
    ELSE s

\* s.strip()
RECURSIVE StripStr(_)
StripStr(s) ==
    IF Len(s) > 0 /\ CharAt(s, Len(s)) \in WhiteSpace
    THEN StripStr(SubSeq(s, 1, Len(s) - 1))
    ELSE LstripStr(s)

\* s.find(sub) + 1: where sub first stands in s, 0 when it does not
IndexOfStr(s, sub) ==
    LET At(i) == SubSeq(s, i, i + Len(sub) - 1) = sub
        places == 1..(Len(s) - Len(sub) + 1)
    IN  IF \E i \in places : At(i)
        THEN CHOOSE i \in places : At(i) /\ \A j \in 1..(i - 1) : ~At(j)
        ELSE 0

\* sub in s
ContainsStr(s, sub) == IndexOfStr(s, sub) > 0

\* s.startswith(prefix)
StartsWithStr(s, prefix) ==
    Len(s) >= Len(prefix) /\ SubSeq(s, 1, Len(prefix)) = prefix

\* s.split(sep) for a separator that is not empty
RECURSIVE SplitStr(_, _)
SplitStr(s, sep) ==
    IF IndexOfStr(s, sep) = 0 THEN <<s>>
    ELSE Only({<<SubSeq(s, 1, i - 1)>> \o SplitStr(SubSeq(s, i + Len(sep), Len(s)), sep) :
                 i \in {IndexOfStr(s, sep)}})

\* s.replace(sub, "")
RECURSIVE RemoveStr(_, _)
RemoveStr(s, sub) ==
    IF IndexOfStr(s, sub) = 0 THEN s
    ELSE Only({SubSeq(s, 1, i - 1) \o RemoveStr(SubSeq(s, i + Len(sub), Len(s)), sub) :
                 i \in {IndexOfStr(s, sub)}})

\* sep.join(lines) for strings
RECURSIVE JoinStr(_, _)
JoinStr(lines, sep) ==
    IF lines = <<>> THEN <<>>
    ELSE IF Len(lines) = 1 THEN lines[1]
    ELSE lines[1] \o sep \o JoinStr(Tail(lines), sep)

\* the elements of a sequence in the order of their first occurrence
RECURSIVE Unique(_)
Unique(seq) ==
    IF seq = <<>> THEN <<>>
    ELSE LET front == Unique(SubSeq(seq, 1, Len(seq) - 1))
             last  == seq[Len(seq)]
         IN  IF \E k \in 1..Len(front) : front[k] = last THEN front
             ELSE Append(front, last)

\* [line.strip() for line in text.split("\n") if line.strip()]
StrippedLines(text) ==
    LET lines == SplitStr(text, <<"\n">>)
    IN  SelectSeq([k \in 1..Len(lines) |-> StripStr(lines[k])], LAMBDA line : line # <<>>)

\* clean_single_string_duplicates
clean_single_string_duplicates(text) ==
    IF Len(text) < 5 THEN StripStr(text)
    ELSE Only({ IF lines = <<>> THEN StripStr(text)
                ELSE IF Len(lines) = 2 /\ lines[1] = lines[2] THEN lines[1]
                ELSE JoinStr(Unique(lines), <<" ">>) :
                lines \in {StrippedLines(text)} })

\* ------------------------------------------------------------------------
\* Date ranges (scrapers/person/utils.py).  The functions take a text as the
\* string of its characters.  The texts they are called on are put together
\* from words:
\*   "Jan", "Dec", "dec"     month abbreviations of the patterns
\*   "Sept", "June"          month names the patterns do not list
\*   "2020", "2024"          four digits      "12345"  five digits
\*   "Present", "present"    " "  a blank     "-"  the dash
\*   "Bachelor", "of", "Science"  other words
\* Words written next to each other without " " are one run of characters.
\* ------------------------------------------------------------------------
\* Jan|Feb|...|Dec, in lower case
MonthWords ==
    {Str(w) : w \in
        {"jan", "feb", "mar", "apr", "may", "jun", "jul", "aug", "sep", "oct", "nov", "dec"}}

Digits == {"0", "1", "2", "3", "4", "5", "6", "7", "8", "9"}

\* \d{4}
MatchesYear(s) == Len(s) = 4 /\ \A k \in 1..4 : CharAt(s, k) \in Digits

\* \s+
IsSpace(s) == Len(s) > 0 /\ \A k \in 1..Len(s) : CharAt(s, k) \in WhiteSpace

\* a date pattern that knows years only
MatchesYearOnly(s) == MatchesYear(s)

\* ^(?:(?:Jan|...|Dec)\s+)?\d{4}$ with re.IGNORECASE
MatchesDate(s) ==
    \/ MatchesYear(s)
    \/ /\ Len(s) >= 8
       /\ LowerStr(SubSeq(s, 1, 3)) \in MonthWords
       /\ IsSpace(SubSeq(s, 4, Len(s) - 4))
       /\ MatchesYear(SubSeq(s, Len(s) - 3, Len(s)))

\* ^Present$ with re.IGNORECASE
MatchesPresent(s) == LowerStr(s) = Str("present")

\* is_date_range: the text has a dash and, stripped, matches
\* ^\s*<date>\s*-\s*(?:<date>|Present)?\s*$
is_date_range(text) ==
    /\ text # <<>>
    /\ ContainsStr(text, <<"-">>)
    /\ \E t \in {StripStr(text)} :
           \E k \in {IndexOfStr(t, <<"-">>)} :
               /\ MatchesDate(StripStr(SubSeq(t, 1, k - 1)))
               /\ \E right \in {StripStr(SubSeq(t, k + 1, Len(t)))} :
                      right = <<>> \/ MatchesDate(right) \/ MatchesPresent(right)

NoDates == [from |-> <<>>, to |-> <<>>]

\* parse_date_range_smart: split at the first dash, strip both sides,
\* validate each side
parse_date_range_smart(text) ==
    IF text = <<>> \/ ~ContainsStr(text, <<"-">>) THEN NoDates
    ELSE Only({ IF ~MatchesDate(from_date) THEN NoDates
                ELSE IF to_date # <<>> /\ ~(MatchesDate(to_date) \/ MatchesPresent(to_date))
                THEN NoDates
                ELSE [from |-> from_date, to |-> to_date] :
                from_date \in {StripStr(SubSeq(text, 1, IndexOfStr(text, <<"-">>) - 1))},
                to_date \in {StripStr(SubSeq(text, IndexOfStr(text, <<"-">>) + 1, Len(text)))} })

\* the string that is written by putting characters next to each other
RECURSIVE Word(_)
Word(cs) ==
    IF Len(cs) = 1 THEN cs[1]
    ELSE Word(SubSeq(cs, 1, Len(cs) \div 2)) \o Word(SubSeq(cs, Len(cs) \div 2 + 1, Len(cs)))

\* a string as a text: every character of white space and every character
\* written by name is a word, and so is every run of other characters
TextOf(s) ==
    LET Alone(k) == s[k] \in WhiteSpace \cup NamedCharacters
        starts == SelectSeq([k \in 1..Len(s) |-> k],
                            LAMBDA k : k = 1 \/ Alone(k) \/ Alone(k - 1))
    IN  [j \in 1..Len(starts) |->
            Word(SubSeq(s, starts[j],
                        IF j = Len(starts) THEN Len(s) ELSE starts[j + 1] - 1))]

\* a record of strings as a record of texts
TextsOf(r) == [f \in DOMAIN r |-> TextOf(r[f])]

\* the sides a date text is put together from
DateSides ==
    {<<>>, <<"2020">>, <<"2024">>, <<"Jan", " ", "2020">>, <<"Dec", " ", "2024">>,
     <<"dec", " ", " ", "2024">>, <<"Jan", "2020">>, <<"Sept", " ", "2020">>,
     <<"June", " ", "2020">>, <<"Jan">>, <<"12345">>, <<"Present">>, <<"present">>,
     <<"Bachelor", " ", "of", " ", "Science">>, <<"2020", " ", "Bachelor">>}

DateJoints == {<<" ", "-", " ">>, <<"-">>, <<" ", "-">>, <<" ">>, <<"-", " ", "-">>}

\* nothing, a space, or a no-break space as the page sets it beside a text
DatePads == {<<>>, <<" ">>, <<"U+00A0">>}

DateTexts ==
    {pre \o l \o j \o r \o post :
        pre \in DatePads, l \in DateSides, j \in DateJoints, r \in DateSides,
        post \in DatePads}

\* the four documented forms, as the pair of their sides
DateForms ==
    [l : {<<"Jan", " ", "2020">>, <<"Dec", " ", "2024">>},
     r : {<<"Jan", " ", "2020">>, <<"Dec", " ", "2024">>}]
    \cup [l : {<<"2020">>, <<"2024">>}, r : {<<"2020">>, <<"2024">>}]
    \cup [l : {<<"Jan", " ", "2020">>, <<"Dec", " ", "2024">>}, r : {<<"Present">>}]
    \cup [l : {<<"2020">>, <<"2024">>}, r : {<<>>}]

\* "left - right", "left -" when the right side is empty
FormText(f) ==
    f.l \o <<" ", "-">> \o (IF f.r = <<>> THEN <<>> ELSE <<" ">> \o f.r)

DateInit ==
    /\ fin \in DateTexts
    /\ fout = NotYet
    /\ fpc = "in"
    /\ PageIdle
    /\ NormIdle
    /\ fields = {}
    /\ max_pages = 0
    /\ srcPages = 0
    /\ site = {}
    /\ CompanyFresh
    /\ PersonIdle

\* one call of is_date_range and of parse_date_range_smart on the text
ParseDate ==
    /\ fpc = "in"
    /\ fout' = [isdate |-> is_date_range(Flat(fin)),
                dates |-> TextsOf(parse_date_range_smart(Flat(fin)))]
    /\ fpc' = "out"
    /\ UNCHANGED fin
    /\ UNCHANGED <<normVars, companyVars, personVars, pageVars>>

SpecDate == DateInit /\ [][ParseDate]_vars

\* ------------------------------------------------------------------------
\* The experience token classifier (scrapers/person/experience.py
\* _parse_position_info with the helpers of scrapers/person/utils.py).
\* An element of an entry is a text: a sequence of words and blanks, with
\* the separator Sep as a word of its own.  The functions take the texts as
\* the strings of their characters.
\* ------------------------------------------------------------------------
\* the value None, among texts and among strings
NoneText == <<"None">>

NoneStr == <<"None">>

LINKEDIN_EMPLOYMENT_TYPES ==
    {Str(w) : w \in
        {"self-employed", "freelance", "internship", "apprenticeship", "contract full-time",
         "permanent part-time", "contract part-time", "casual / on-call", "seasonal",
         "permanent full-time", "co-op", "full-time", "part-time", "contract", "temporary",
         "volunteer", "work study"}}

\* the location_indicators of is_geographic_location
GeoWords ==
    {Str(w) : w \in
        {",", "area", "region", "metropolitan", "remote", "on-site", "hybrid", "germany",
         "austria", "canada", "usa", "united states", "uk", "france", "city", "state",
         "province", "country", "district", "county", "am main", "rhine-main", "greater",
         "toronto", "frankfurt", "linz", "hanau", "aachen", "hesse", "upper austria",
         "ontario"}}

\* any(word in s.lower() for word in words)
ContainsAny(s, words) ==
    \E low \in {LowerStr(s)} : \E word \in words : ContainsStr(low, word)

\* text.lower().strip() in LINKEDIN_EMPLOYMENT_TYPES
IsExactType(text) == StripStr(LowerStr(text)) \in LINKEDIN_EMPLOYMENT_TYPES

\* is_employment_type: an entry of the vocabulary is contained in the text
is_employment_type(text) ==
    text # <<>> /\ (IsExactType(text) \/ ContainsAny(text, LINKEDIN_EMPLOYMENT_TYPES))

\* the first element of a sequence of strings that is exactly a vocabulary
\* entry, stripped; NoneStr when there is none
FirstExact(parts) ==
    IF \E k \in 1..Len(parts) : IsExactType(parts[k])
    THEN StripStr(parts[CHOOSE k \in 1..Len(parts) :
                  IsExactType(parts[k]) /\ \A j \in 1..(k - 1) : ~IsExactType(parts[j])])
    ELSE NoneStr

\* s.split(): the runs of characters between white space
SplitWs(s) ==
    LET blanked == [k \in 1..Len(s) |-> IF s[k] \in WhiteSpace THEN " " ELSE s[k]]
    IN  SelectSeq(SplitStr(blanked, <<" ">>), LAMBDA part : part # <<>>)

\* the separators of line 520, in the order they are tried
TypeSeparators == << <<Sep>>, <<",">>, <<"-">>, <<Bullet>> >>

\* lines 520-527: the first part, of the first separator that has one, that
\* is exactly a vocabulary entry
RECURSIVE FirstExactPart(_, _)
FirstExactPart(text, k) ==
    IF k > Len(TypeSeparators) THEN NoneStr
    ELSE Only({ IF found # NoneStr THEN found ELSE FirstExactPart(text, k + 1) :
                found \in {IF ContainsStr(text, TypeSeparators[k])
                           THEN FirstExact(SplitStr(text, TypeSeparators[k]))
                           ELSE NoneStr} })

\* extract_employment_type: the whole text, else a part between separators,
\* else a single word of the text, that is exactly a vocabulary entry
extract_employment_type(text) ==
    IF text = <<>> THEN NoneStr
    ELSE IF IsExactType(text) THEN StripStr(text)
    ELSE Only({ IF part # NoneStr THEN part
                ELSE IF ContainsAny(StripStr(text), LINKEDIN_EMPLOYMENT_TYPES)
                THEN FirstExact(SplitWs(text))
                ELSE NoneStr :
                part \in {FirstExactPart(text, 1)} })

\* is_geographic_location
is_geographic_location(text) ==
    /\ text # <<>>
    /\ ~is_employment_type(text)
    /\ ContainsAny(StripStr(text), GeoWords)

\* any(is_date_range(part.strip()) for part in text.split(Sep))
AnyPartIsDate(text) ==
    \E parts \in {SplitStr(text, <<Sep>>)} :
        \E k \in 1..Len(parts) : is_date_range(StripStr(parts[k]))

\* Sep in text
HasSep(text) == ContainsStr(text, <<Sep>>)

\* not x, for a value that is "" or None or a string
Falsy(s) == s = <<>> \/ s = NoneStr

\* the company text taken whole
CompanyUnsplit(text) == [company |-> text, employment_type |-> <<>>]

\* company_text -> company and employment_type: the text before the first
\* separator, and the part after it when that part is an employment type
CompanyOf(text) ==
    IF HasSep(text)
    THEN Only({ [company |-> StripStr(parts[1]),
                 employment_type |->
                     IF Len(parts) > 1 /\ is_employment_type(StripStr(parts[2]))
                     THEN extract_employment_type(StripStr(parts[2])) ELSE <<>>] :
                parts \in {SplitStr(text, <<Sep>>)} })
    ELSE [company |-> text, employment_type |-> <<>>]

\* the "smart classification" of the trailing element: an employment type
\* (kept only if none was found in the company text) or else the location
TrailingOf(text, etype) ==
    IF is_employment_type(text)
    THEN [location |-> <<>>,
          employment_type |-> IF Falsy(etype) THEN extract_employment_type(text) ELSE etype]
    ELSE [location |-> text, employment_type |-> etype]

\* clean_single_string_duplicates of a string
CleanTitle(title_text) == clean_single_string_duplicates(title_text)

\* lines 175-350: title, company, work_times, location and employment_type
\* by the number of elements and by where the dates are
AssignRoles(toks) ==
    LET n == Len(toks)
        blank == [position_title |-> <<>>, company |-> <<>>, work_times |-> <<>>,
                  location |-> <<>>, employment_type |-> <<>>]
    IN  IF n = 4
        THEN Only({ [position_title |-> CleanTitle(toks[1]),
                     company |-> c.company, work_times |-> toks[3],
                     location |-> tr.location, employment_type |-> tr.employment_type] :
                    c \in {CompanyOf(toks[2])},
                    tr \in {TrailingOf(toks[4], CompanyOf(toks[2]).employment_type)} })
        ELSE IF n = 3
        THEN Only({ IF is_second_dates \/ ~is_third_dates
                    THEN Only({ [position_title |-> <<>>, company |-> c.company,
                                 work_times |-> IF is_second_dates THEN toks[2] ELSE <<>>,
                                 location |-> tr.location,
                                 employment_type |-> tr.employment_type] :
                                c \in {CompanyOf(toks[1])},
                                tr \in {TrailingOf(toks[3],
                                                   CompanyOf(toks[1]).employment_type)} })
                    ELSE Only({ [position_title |-> CleanTitle(toks[1]),
                                 company |-> c.company, work_times |-> toks[3],
                                 location |-> <<>>, employment_type |-> c.employment_type] :
                                c \in {CompanyOf(toks[2])} }) :
                    is_second_dates \in {HasSep(toks[2]) /\ AnyPartIsDate(toks[2])},
                    is_third_dates \in {HasSep(toks[3]) /\ AnyPartIsDate(toks[3])} })
        ELSE Only({ [blank EXCEPT !.company = c.company,
                                  !.employment_type = c.employment_type,
                                  !.work_times = IF n > 1 THEN toks[2] ELSE <<>>] :
                    c \in {IF n > 0 THEN CompanyOf(toks[1])
                           ELSE [company |-> <<>>, employment_type |-> <<>>]} })

\* s.endswith(suffix)
EndsWithStr(s, suffix) ==
    Len(s) >= Len(suffix) /\ SubSeq(s, Len(s) - Len(suffix) + 1, Len(s)) = suffix

\* lines 381-398: from_date and to_date out of the date part of work_times
DatesOfTimes(times) ==
    IF times = <<>> THEN NoDates
    ELSE IF ContainsStr(times, Str(" - "))
    THEN Only({ [from |-> StripStr(date_parts[1]),
                 to |-> IF Len(date_parts) > 1 THEN StripStr(date_parts[2]) ELSE <<>>] :
                date_parts \in {SplitStr(times, Str(" - "))} })
    ELSE IF EndsWithStr(times, Str(" -"))
    THEN [from |-> StripStr(RemoveStr(times, Str(" -"))), to |-> <<>>]
    ELSE Only({ [from |-> IF Len(time_parts) >= 2
                          THEN time_parts[1] \o <<" ">> \o time_parts[2] ELSE <<>>,
                 to |-> <<>>] :
                time_parts \in {SplitWs(times)} })

\* lines 362-370: work_times is cleared when it has a separator and no part
\* of it is a date range
WorkTimesKept(work_times) ==
    IF work_times # <<>> /\ HasSep(work_times) /\ ~AnyPartIsDate(work_times)
    THEN <<>> ELSE work_times

\* lines 353-403 of _parse_position_info, r being what lines 175-350 assigned
FinishRoles(r) ==
    Only({ [position_title |-> r.position_title,
            company |-> r.company,
            work_times |-> work_times,
            location |-> location,
            employment_type |-> r.employment_type,
            from_date |-> d.from,
            to_date |-> d.to,
            duration |-> IF work_times # <<>> /\ Len(parts) > 1
                         THEN StripStr(parts[2]) ELSE NoneStr] :
           \* lines 353-360
           location \in {IF r.location # <<>> /\ HasSep(r.location)
                             /\ AnyPartIsDate(r.location)
                         THEN <<>> ELSE r.location},
           work_times \in {WorkTimesKept(r.work_times)},
           parts \in {SplitStr(WorkTimesKept(r.work_times), <<Sep>>)},
           d \in {IF WorkTimesKept(r.work_times) = <<>> THEN NoDates
                  ELSE DatesOfTimes(StripStr(SplitStr(WorkTimesKept(r.work_times),
                                                      <<Sep>>)[1]))} })

\* _parse_position_info on the texts of the elements of one entry (the
\* roles are bound as values, each computed once)
parse_position_info(toks) == Only({FinishRoles(r) : r \in {AssignRoles(toks)}})

\* the entry as the strings of its elements
FlatAll(toks) == [k \in 1..Len(toks) |-> Flat(toks[k])]

\* texts an element of an entry can show
OrgTexts ==
    {<<"Acme", " ", "Corp">>,
     <<"Acme", " ", "Corp", " ", Sep, " ", "Contract">>,
     <<"Contractors", " ", "Inc", " ", Sep, " ", "Full-time">>,
     <<"Acme", " ", "Corp", " ", Sep, " ", "Berlin,", " ", "Germany">>}

DateTokenTexts ==
    {<<"Jan", " ", "2020", " ", "-", " ", "Dec", " ", "2024", " ", Sep, " ", "2", " ", "yrs">>,
     <<"2020", " ", "-", " ", "2024", " ", Sep, " ", "2", " ", "yrs">>,
     <<"Jan", " ", "2020", " ", "-", " ", "Present", " ", Sep, " ", "2", " ", "yrs">>,
     <<"2020", " ", "-", " ", Sep, " ", "2", " ", "yrs">>,
     <<"Jan", " ", "2020", " ", "-", " ", "Dec", " ", "2024">>}

LocationTexts ==
    {<<"Berlin,", " ", "Germany">>, <<"Remote">>, <<"Springfield">>,
     <<"Co-op", " ", "City,", " ", "NY">>}

TypeTexts ==
    {<<"Contract">>, <<"Full-time">>, <<"Contract", " ", Sep, " ", "Remote">>,
     <<"Acme", " ", Bullet, " ", "Contract">>}

TitleTexts == {<<"Engineer">>}

ElementTexts == OrgTexts \cup DateTokenTexts \cup LocationTexts \cup TypeTexts \cup TitleTexts

\* entries of the shape [organization Sep employment-type, date-range Sep
\* duration, location], by their components; the location has no
\* employment-type word in it
ShapeEntries ==
    [org : {<<"Acme", " ", "Corp">>, <<"Contractors", " ", "Inc">>},
     type : {<<"Contract">>, <<"Full-time">>},
     dates : DateForms,
     dur : {<<"2", " ", "yrs">>},
     loc : {t \in LocationTexts : ~is_employment_type(Flat(t))}]

ShapeTokens(e) ==
    << e.org \o <<" ", Sep, " ">> \o e.type,
       FormText(e.dates) \o <<" ", Sep, " ">> \o e.dur,
       e.loc >>

\* entries of three elements in any arrangement, of four elements in the
\* arrangements the page shows, and the shorter ones
Entries ==
    {<<a, b, c>> : a \in ElementTexts, b \in ElementTexts, c \in ElementTexts}
    \cup {<<t, o, d, x>> : t \in TitleTexts, o \in OrgTexts,
                           d \in DateTokenTexts \cup LocationTexts,
                           x \in LocationTexts \cup TypeTexts}
    \cup {<<a, b>> : a \in OrgTexts, b \in DateTokenTexts}
    \cup {ShapeTokens(e) : e \in ShapeEntries}
    \cup {<<a>> : a \in OrgTexts}
    \cup {<<>>}

ClassifyInit ==
    /\ fin \in Entries
    /\ fout = NotYet
    /\ fpc = "in"
    /\ PageIdle
    /\ NormIdle
    /\ fields = {}
    /\ max_pages = 0
    /\ srcPages = 0
    /\ site = {}
    /\ CompanyFresh
    /\ PersonIdle

\* one call of _parse_position_info
Classify ==
    /\ fpc = "in"
    /\ fout' = TextsOf(parse_position_info(FlatAll(fin)))
    /\ fpc' = "out"
    /\ UNCHANGED fin
    /\ UNCHANGED <<normVars, companyVars, personVars, pageVars>>

\* the same entry is handed to _parse_position_info once more
ClassifyAgain ==
    /\ fpc = "out"
    /\ fout' = [first |-> fout, second |-> TextsOf(parse_position_info(FlatAll(fin)))]
    /\ fpc' = "twice"
    /\ UNCHANGED fin
    /\ UNCHANGED <<normVars, companyVars, personVars, pageVars>>

SpecClassify == ClassifyInit /\ [][Classify \/ ClassifyAgain]_vars

\* ------------------------------------------------------------------------
\* The description/skills splitter (scrapers/person/utils.py)
\* ------------------------------------------------------------------------
\* A text handed to the splitter is the string of its characters; the
\* description and the skills that come back are strings.

\* lines 147-155 and 227-235: what a skill may not have inside
SkillFilterWords ==
    {Str(w) : w \in
        {"university", "college", "school", "institute", "hochschule", "aachen", "technische"}}

\* lines 181-190: what makes a skills line be cut
SkillStopWords ==
    {Str(w) : w \in
        {"university", "college", "school", "institute", "hochschule", "english", "german",
         "technische"}}

\* lines 198-204: where a skills line is cut
SkillCutWords ==
    {Str(w) : w \in
        {"university", "college", "school", "institute", "hochschule"}}

\* lines 242-250: what keeps a line out of the description
DescriptionStopWords ==
    {Str(w) : w \in
        {"university", "college", "school", "institute", "hochschule", "english", "german"}}

SkillsWord == Str("Skills:")

StartsWithSkills(s) == StartsWithStr(s, SkillsWord)

\* text.replace("Skills:", "")
WithoutSkillsWord(s) == RemoveStr(s, SkillsWord)

\* line[7:].strip()
AfterSkillsWord(line) == StripStr(SubSeq(line, 8, Len(line)))

\* the parts of a skills text, split at Sep when there is one, else at ",",
\* each stripped
SkillParts(s) ==
    LET raw == IF ContainsStr(s, <<Sep>>) THEN SplitStr(s, <<Sep>>) ELSE SplitStr(s, <<",">>)
    IN  [k \in 1..Len(raw) |-> StripStr(raw[k])]

\* a skill that is non-empty, of one line and without an institution word
CleanSkill(skill) ==
    skill # <<>> /\ ~ContainsStr(skill, <<"\n">>) /\ ~ContainsAny(skill, SkillFilterWords)

\* the filter that lets every non-empty skill through
AnySkill(skill) == skill # <<>>

CleanSkills(parts) == SelectSeq(parts, CleanSkill)

\* lines 193-208: the pieces of a skills text before the first one with an
\* institution word, each followed by a blank, the whole stripped
RECURSIVE PartsBefore(_)
PartsBefore(skill_parts) ==
    IF skill_parts = <<>> \/ ContainsAny(skill_parts[1], SkillCutWords) THEN <<>>
    ELSE skill_parts[1] \o <<" ">> \o PartsBefore(Tail(skill_parts))

BeforeInstitution(skills_text) == StripStr(PartsBefore(SplitWs(skills_text)))

\* ---- the similarity of lines ----

\* the number of digits s begins with
RECURSIVE LeadingDigits(_)
LeadingDigits(s) ==
    IF Len(s) > 0 /\ CharAt(s, 1) \in Digits
    THEN 1 + LeadingDigits(SubSeq(s, 2, Len(s)))
    ELSE 0

\* re.sub(r"^[-<bullet>*]\s*", "", s)
WithoutBullet(s) ==
    IF Len(s) > 0 /\ CharAt(s, 1) \in {"-", Bullet, "*"} THEN LstripStr(SubSeq(s, 2, Len(s)))
    ELSE s

\* re.sub(r"^\d+\.\s*", "", s)
WithoutNumber(s) ==
    LET d == LeadingDigits(s)
    IN  IF d > 0 /\ Len(s) > d /\ CharAt(s, d + 1) = "."
        THEN LstripStr(SubSeq(s, d + 2, Len(s)))
        ELSE s

\* lines 62-65 and 73-76: the line stripped and without its list marker
NormalizedLine(line) == WithoutNumber(WithoutBullet(StripStr(line)))

Max(a, b) == IF a >= b THEN a ELSE b

\* one row of the table of the longest common subsequence: the cells of the
\* columns lo..hi for the character c of the other string, added to acc,
\* the cells of this row so far; prev is the row before.  The columns are
\* filled from left to right, half by half
RECURSIVE LcsCells(_, _, _, _, _, _)
LcsCells(a, c, prev, lo, hi, acc) ==
    IF lo = hi
    THEN Append(acc, IF CharAt(a, lo) = c
                     THEN (IF lo = 1 THEN 0 ELSE prev[lo - 1]) + 1
                     ELSE Max(prev[lo], IF lo = 1 THEN 0 ELSE acc[lo - 1]))
    ELSE Only({LcsCells(a, c, prev, mid + 1, hi, left) :
                 mid \in {(lo + hi) \div 2},
                 left \in {LcsCells(a, c, prev, lo, (lo + hi) \div 2, acc)}})

\* the last row of the table after the characters lo..hi of b, from the row
\* prev before them; the rows are filled from top to bottom, half by half
RECURSIVE LcsRows(_, _, _, _, _)
LcsRows(a, b, lo, hi, prev) ==
    IF lo = hi
    THEN Only({LcsCells(a, c, prev, 1, Len(a), <<>>) : c \in {CharAt(b, lo)}})
    ELSE Only({LcsRows(a, b, mid + 1, hi, upper) :
                 mid \in {(lo + hi) \div 2},
                 upper \in {LcsRows(a, b, lo, (lo + hi) \div 2, prev)}})

\* the length of the longest common subsequence of two strings
Lcs(a, b) ==
    IF Len(a) = 0 \/ Len(b) = 0 THEN 0
    ELSE LcsRows(a, b, 1, Len(b), [j \in 1..Len(a) |-> 0])[Len(a)]

\* fuzz.ratio(a, b) >= threshold: the ratio is 100 * 2 * lcs / (len(a) +
\* len(b)), lcs being Lcs(a, b)
RatioAtLeast(a, b, lcs, threshold) ==
    IF Len(a) + Len(b) = 0 THEN TRUE
    ELSE 200 * lcs >= threshold * (Len(a) + Len(b))

\* the pieces of the longer string that fuzz.partial_ratio compares with the
\* shorter one, of length m: every piece of length m, and the shorter
\* pieces at its beginning and at its end, as <<first, last>>.  A piece
\* shorter than 9 m / 11 cannot reach the ratio 90 and is left out
Windows(long, m) ==
    LET n == Len(long)
        least == (9 * m + 10) \div 11
    IN  {<<1, k>> : k \in least..Max(least - 1, m - 1)}
        \cup {<<i, i + m - 1>> : i \in 1..(n - m + 1)}
        \cup {<<n - k + 1, n>> : k \in least..Max(least - 1, m - 1)}

\* the best alignment of short in long reaches the ratio threshold
AlignedAtLeast(short, long, threshold) ==
    \E w \in Windows(long, Len(short)) :
        \E piece \in {SubSeq(long, w[1], w[2])} :
            RatioAtLeast(short, piece, Lcs(short, piece), threshold)

\* fuzz.partial_ratio(a, b) >= 90, for strings whose longest common
\* subsequence has the length lcs: no piece reaches 90 when lcs is below
\* 9/11 of the shorter length; strings of equal length are tried both ways
PartialAtLeast90(a, b, lcs) ==
    IF Len(a) = 0 \/ Len(b) = 0 THEN Len(a) = Len(b)
    ELSE IF 11 * lcs < 9 * (IF Len(a) <= Len(b) THEN Len(a) ELSE Len(b)) THEN FALSE
    ELSE IF Len(a) < Len(b) THEN AlignedAtLeast(a, b, 90)
    ELSE IF Len(b) < Len(a) THEN AlignedAtLeast(b, a, 90)
    ELSE AlignedAtLeast(a, b, 90) \/ AlignedAtLeast(b, a, 90)

\* the three comparisons of lines 83-102 for the normalised new line and
\* the normalised existing lines of 20 characters or more, all in lower case
MeaningfullySame(new, existing, combined) ==
    \E lcss \in {[k \in 1..Len(existing) |-> Lcs(new, existing[k])]} :
        \/ \E k \in 1..Len(existing) : RatioAtLeast(new, existing[k], lcss[k], 80)
        \/ RatioAtLeast(new, combined, Lcs(new, combined), 80)
        \/ \E k \in 1..Len(existing) : PartialAtLeast90(existing[k], new, lcss[k])

\* is_content_essentially_same_when_building_from_multiple_elements
NearDuplicate(new_line, existing_lines) ==
    IF StripStr(new_line) = <<>> \/ existing_lines = <<>> THEN FALSE
    ELSE \E normalized_new \in {NormalizedLine(new_line)} :
           IF Len(normalized_new) < 20 THEN FALSE
           ELSE \E combined_existing \in
                      {SelectSeq([k \in 1..Len(existing_lines) |->
                                     NormalizedLine(existing_lines[k])],
                                 LAMBDA e : Len(e) >= 20)} :
                  /\ combined_existing # <<>>
                  /\ \E new \in {LowerStr(normalized_new)},
                        existing \in {[k \in 1..Len(combined_existing) |->
                                          LowerStr(combined_existing[k])]} :
                        MeaningfullySame(new, existing, JoinStr(existing, <<" ">>))

\* the skills of one line that starts with "Skills:" in
\* extract_description_and_skills (lines 173-239)
SkillsOfLine(line) ==
    Only({ IF cut = <<>> THEN <<>> ELSE CleanSkills(SkillParts(cut)) :
           cut \in {Only({ IF skills_text # <<>> /\ ContainsAny(skills_text, SkillStopWords)
                           THEN BeforeInstitution(skills_text) ELSE skills_text :
                           skills_text \in {AfterSkillsWord(line)} })} })

\* the for loop over the lines of extract_description_and_skills
RECURSIVE SplitLines(_, _)
SplitLines(lines, acc) ==
    IF lines = <<>> THEN acc
    ELSE Only({ SplitLines(Tail(lines), next) :
                next \in {Only({ IF line = <<>> THEN acc
                                 ELSE IF StartsWithSkills(line)
                                 THEN [acc EXCEPT !.skills = @ \o SkillsOfLine(line)]
                                 ELSE IF ~ContainsAny(line, DescriptionStopWords)
                                         /\ ~NearDuplicate(line, acc.description_lines)
                                 THEN [acc EXCEPT !.description_lines = Append(@, line)]
                                 ELSE acc :
                                 line \in {StripStr(lines[1])} })} })

NoLines == [description_lines |-> <<>>, skills |-> <<>>]

extract_description_and_skills(text) ==
    IF text = <<>> THEN [description |-> <<>>, skills |-> <<>>]
    ELSE IF StartsWithSkills(text)
    THEN LET skills_text == StripStr(WithoutSkillsWord(text))
         IN  [description |-> <<>>,
              skills |-> IF skills_text = <<>> THEN <<>>
                         ELSE CleanSkills(SelectSeq(SkillParts(skills_text), AnySkill))]
    ELSE Only({ [description |-> JoinStr(r.description_lines, <<"\n">>),
                 skills |-> Unique(r.skills)] :
                r \in {SplitLines(SplitStr(text, <<"\n">>), NoLines)} })

\* the loop over the lines of one list item in
\* extract_description_and_skills_from_element (lines 303-333)
RECURSIVE ItemLines(_, _)
ItemLines(lines, acc) ==
    IF lines = <<>> THEN acc
    ELSE Only({ ItemLines(Tail(lines), next) :
                next \in {Only({ IF line = <<>> THEN acc
                                 ELSE IF StartsWithSkills(line)
                                 THEN [acc EXCEPT !.skills =
                                           @ \o SelectSeq(SkillParts(AfterSkillsWord(line)),
                                                          AnySkill)]
                                 ELSE IF ~NearDuplicate(line, acc.description_lines)
                                 THEN [acc EXCEPT !.description_lines = Append(@, line)]
                                 ELSE acc :
                                 line \in {StripStr(lines[1])} })} })

\* the loop over the list items
RECURSIVE ItemsLoop(_, _)
ItemsLoop(items, acc) ==
    IF items = <<>> THEN acc
    ELSE Only({ ItemsLoop(Tail(items), next) :
                next \in {Only({ IF text = <<>> THEN acc
                                 ELSE ItemLines(
                                          SplitStr(clean_single_string_duplicates(text),
                                                   <<"\n">>),
                                          acc) :
                                 text \in {StripStr(Flat(items[1]))} })} })

\* extract_description_and_skills_from_element on an element that is
\* visible: el.lists says whether it has list containers, el.items are the
\* texts of their items, el.text is the text of the element itself
extract_description_and_skills_from_element(el) ==
    IF el.lists
    THEN Only({ [description |-> JoinStr(r.description_lines, <<"\n">>),
                 skills |-> Unique(r.skills)] :
                r \in {ItemsLoop(el.items, NoLines)} })
    ELSE Only({ IF text = <<>> THEN [description |-> <<>>, skills |-> <<>>]
                ELSE extract_description_and_skills(
                         clean_single_string_duplicates(text)) :
                text \in {StripStr(Flat(el.text))} })

RECURSIVE JoinSkills(_, _)
JoinSkills(names, joint) ==
    IF Len(names) = 1 THEN names[1]
    ELSE names[1] \o joint \o JoinSkills(Tail(names), joint)

\* "Skills: a Sep b Sep c" and "Skills: a, b, c" of up to MaxSkills skill names
SkillsLines ==
    LET SkillNames == {<<"Java">>, <<"Python">>,
                       <<"University", " ", "of", " ", "Example">>}
        SkillJoints == {<<" ", Sep, " ">>, <<",", " ">>}
        NameLists == UNION {[1..n -> SkillNames] : n \in 1..MaxSkills}
    IN  {<<"Skills:", " ">> \o JoinSkills(names, joint) :
            names \in NameLists, joint \in SkillJoints}

\* what the splitter is called on: a text given to
\* extract_description_and_skills, an element without list containers, or
\* an element with one or two list items. The texts are a skills line, alone
\* or around a description line, the texts without any skill, and a
\* description line followed by a line with an institution word or by a
\* line of 30 characters, alone or followed by the same line, by the same
\* line behind a list marker ("- " or a bullet), or by a line that differs in
\* its last word.
SplitterInputs ==
    LET DescriptionLine == <<"Built", " ", "tools">>
        InstitutionLine == <<"University", " ", "of", " ", "Example">>
        LongLine == <<"Built", " ", "tools", " ", "Built", " ", "tools", " ", "Python">>
        MarkedLine == <<"-", " ">> \o LongLine
        BulletLine == <<Bullet, " ">> \o LongLine
        SimilarLine == <<"Built", " ", "tools", " ", "Built", " ", "tools", " ", "Java">>
        SplitterTexts ==
            SkillsLines
            \cup {DescriptionLine \o <<"\n">> \o l : l \in SkillsLines}
            \cup {l \o <<"\n">> \o DescriptionLine : l \in SkillsLines}
            \cup {<<>>, DescriptionLine, <<"Skills:">>, <<"Skills:", " ">>}
            \cup {DescriptionLine \o <<"\n">> \o l \o t :
                     l \in {InstitutionLine, LongLine}
                           \cup {LongLine \o <<"\n">> \o m :
                                    m \in {LongLine, MarkedLine, BulletLine, SimilarLine}},
                     t \in {<<>>, <<"\n", "Skills:", " ", "Java">>}}
        SecondItems == {DescriptionLine, <<"Skills:", " ", "Java">>,
                        <<"Skills:", " ", "Python">>}
    IN  {[via |-> "text", lists |-> FALSE, items |-> <<>>, text |-> t] :
            t \in SplitterTexts}
        \cup {[via |-> "element", lists |-> FALSE, items |-> <<>>, text |-> t] :
                 t \in SplitterTexts}
        \cup {[via |-> "element", lists |-> TRUE, items |-> <<l>>, text |-> l] :
                 l \in SkillsLines \cup {DescriptionLine}}
        \cup {[via |-> "element", lists |-> TRUE, items |-> <<l, m>>, text |-> l] :
                 l \in SkillsLines, m \in SecondItems}

SkillsInit ==
    /\ fin \in SplitterInputs
    /\ fout = NotYet
    /\ fpc = "in"
    /\ PageIdle
    /\ NormIdle
    /\ fields = {}
    /\ max_pages = 0
    /\ srcPages = 0
    /\ site = {}
    /\ CompanyFresh
    /\ PersonIdle

ExtractSkills ==
    /\ fpc = "in"
    /\ fout' = IF fin.via = "text" THEN extract_description_and_skills(Flat(fin.text))
               ELSE extract_description_and_skills_from_element(fin)
    /\ fpc' = "out"
    /\ UNCHANGED <<fin, normVars, companyVars, personVars, pageVars>>

SpecSkills == SkillsInit /\ [][ExtractSkills]_vars

\* ------------------------------------------------------------------------
\* A role nested under a company (scrapers/person/experience.py
\* _extract_inner_position_data and _parse_work_times).  The input is the
\* link of the nested item: whether it is visible, the texts of its child
\* elements (the title first; an element that is not visible reads as ""),
\* and the item as the splitter sees it.
\* ------------------------------------------------------------------------
MaxInner == 2

\* _parse_work_times: the part before the first Sep is cut at single blanks
_parse_work_times(work_times) ==
    Only({ [from_date |-> IF times # <<>> /\ Len(time_parts) >= 2
                          THEN JoinStr(SubSeq(time_parts, 1, 2), <<" ">>) ELSE <<>>,
            to_date |-> IF times # <<>> /\ Len(time_parts) > 3
                        THEN JoinStr(SubSeq(time_parts, 4, Len(time_parts)), <<" ">>)
                        ELSE <<>>,
            duration |-> IF Len(parts) > 1 THEN StripStr(parts[2]) ELSE NoneStr] :
           parts \in {SplitStr(work_times, <<Sep>>)},
           times \in {StripStr(SplitStr(work_times, <<Sep>>)[1])},
           time_parts \in {SplitStr(StripStr(SplitStr(work_times, <<Sep>>)[1]), <<" ">>)} })

NoRoles == [work_times |-> <<>>, location |-> <<>>, employment_type |-> <<>>]

\* one round of the loop of lines 486-513 on the text of one element
InnerElement(acc, elem_text) ==
    Only({ IF has_dates /\ acc.work_times = <<>>
           THEN [acc EXCEPT !.work_times = elem_text]
           ELSE IF is_employment_type(elem_text) /\ Falsy(acc.employment_type)
           THEN [acc EXCEPT !.employment_type = extract_employment_type(elem_text)]
           ELSE IF is_geographic_location(elem_text) /\ acc.location = <<>>
           THEN [acc EXCEPT !.location = elem_text]
           ELSE IF ~has_dates /\ acc.location = <<>> /\ Falsy(acc.employment_type)
           THEN IF is_employment_type(elem_text)
                THEN [acc EXCEPT !.employment_type = extract_employment_type(elem_text)]
                ELSE [acc EXCEPT !.location = elem_text]
           ELSE acc :
           has_dates \in {HasSep(elem_text) /\ AnyPartIsDate(elem_text)} })

\* the loop over elements[1:]
RECURSIVE InnerLoop(_, _)
InnerLoop(texts, acc) ==
    IF texts = <<>> THEN acc
    ELSE Only({InnerLoop(Tail(texts), next) : next \in {InnerElement(acc, texts[1])}})

\* line 526 unpacks what extract_description_and_skills_from_element
\* returns into two names.  That function is "async def" (utils.py:268) and
\* is called without await, so what it returns is a coroutine object, which
\* cannot be unpacked: TypeError
CoroutineUnpacks == FALSE

\* _extract_inner_position_data, the strings of the result as texts;
\* NoneText is the result None, which is also what the handler of lines
\* 539-540 returns
_extract_inner_position_data(inner) ==
    IF ~inner.link_visible \/ Len(inner.elements) < 2 THEN NoneText
    ELSE IF ~CoroutineUnpacks THEN NoneText
    ELSE Only({ [position_title |-> TextOf(CleanTitle(Flat(inner.elements[1]))),
                 work_times |-> TextOf(r.work_times),
                 location |-> TextOf(r.location),
                 employment_type |-> TextOf(r.employment_type),
                 description |-> TextOf(ds.description),
                 skills |-> ds.skills,
                 from_date |-> TextOf(t.from_date),
                 to_date |-> TextOf(t.to_date),
                 duration |-> TextOf(t.duration)] :
                r \in {InnerLoop(FlatAll(Tail(inner.elements)), NoRoles)},
                t \in {_parse_work_times(
                          InnerLoop(FlatAll(Tail(inner.elements)), NoRoles).work_times)},
                ds \in {extract_description_and_skills_from_element(inner.item)} })

\* nested items: a title followed by up to MaxInner elements, each with a
\* text an element can show, a date text without duration, or no text
InnerInputs ==
    LET InnerTexts == ElementTexts \cup {<<>>}
                      \cup {<<"2020", " ", "-", " ", "2024">>, <<"2020", " ", "-">>}
        Followers == UNION {[1..n -> InnerTexts] : n \in 0..MaxInner}
        Items == {[via |-> "element", lists |-> FALSE, items |-> <<>>, text |-> <<>>],
                  [via |-> "element", lists |-> TRUE,
                   items |-> << <<"Built", " ", "tools">>,
                                <<"Skills:", " ", "Java", " ", Sep, " ", "Python">> >>,
                   text |-> <<>>]}
    IN  {[link_visible |-> TRUE, elements |-> <<<<"Engineer">>>> \o f, item |-> i] :
            f \in Followers, i \in Items}
        \cup {[link_visible |-> FALSE, elements |-> <<<<"Engineer">>, <<"Remote">>>>,
               item |-> i] : i \in Items}

InnerInit ==
    /\ fin \in InnerInputs
    /\ fout = NotYet
    /\ fpc = "in"
    /\ PageIdle
    /\ NormIdle
    /\ fields = {}
    /\ max_pages = 0
    /\ srcPages = 0
    /\ site = {}
    /\ CompanyFresh
    /\ PersonIdle

\* one call of _extract_inner_position_data
ExtractInner ==
    /\ fpc = "in"
    /\ fout' = _extract_inner_position_data(fin)
    /\ fpc' = "out"
    /\ UNCHANGED <<fin, normVars, companyVars, personVars, pageVars>>

SpecInner == InnerInit /\ [][ExtractInner]_vars

\* ------------------------------------------------------------------------
\* scrape_educations (scrapers/person/education.py) on a page with one
\* education item.  The item has its container (visible or not), the span
\* texts of the summary (the institution first), and the summary text
\* element (visible or not) with its inner text.  The logo has no link.
\* ------------------------------------------------------------------------
NoInfo == [institution_name |-> <<>>, degree |-> <<>>, from_date |-> <<>>, to_date |-> <<>>]

\* the loop of lines 154-167 over the spans after the institution
RECURSIVE EducationSpans(_, _)
EducationSpans(texts, info) ==
    IF texts = <<>> THEN info
    ELSE Only({EducationSpans(Tail(texts), next) :
               next \in {IF is_date_range(texts[1]) /\ info.from_date = <<>>
                         THEN [info EXCEPT
                                 !.from_date = parse_date_range_smart(texts[1]).from,
                                 !.to_date = parse_date_range_smart(texts[1]).to]
                         ELSE IF ~is_date_range(texts[1]) /\ info.degree = <<>>
                         THEN [info EXCEPT !.degree = texts[1]]
                         ELSE info}})

_extract_education_info(outer) ==
    IF outer = <<>> THEN NoInfo
    ELSE EducationSpans(Tail(outer), [NoInfo EXCEPT !.institution_name = outer[1]])

\* x or None, as a text
OrNone(s) == IF s = <<>> THEN NoneText ELSE TextOf(s)

\* lines 49-110: the Education that is added for the item, its strings as
\* texts; NoneText when the item is passed over
EducationOf(item) ==
    IF ~item.container_visible THEN NoneText
    ELSE Only({ [from_date |-> OrNone(info.from_date),
                 to_date |-> OrNone(info.to_date),
                 description |-> OrNone(ds.description),
                 degree |-> OrNone(info.degree),
                 institution_name |-> TextOf(info.institution_name),
                 skills |-> ds.skills,
                 linkedin_url |-> NoneText] :
                info \in {_extract_education_info(FlatAll(item.outer))},
                ds \in {IF item.summary_visible
                        THEN extract_description_and_skills(
                                 clean_single_string_duplicates(Flat(item.raw_text)))
                        ELSE [description |-> <<>>, skills |-> <<>>]} })

\* items: the texts the splitter is called on, under an institution that is
\* followed by up to two of a degree and two date ranges
EducationItems ==
    LET After == {<<"Bachelor">>, <<"2020", " ", "-", " ", "2024">>,
                  <<"Jan", " ", "2020", " ", "-", " ", "Present">>}
        Outers == {<<<<"Acme", " ", "Corp">>>> \o f :
                      f \in UNION {[1..n -> After] : n \in 0..2}}
        Texts == {i.text : i \in {j \in SplitterInputs : j.via = "text"}}
    IN  [container_visible : {TRUE}, outer : Outers, summary_visible : BOOLEAN,
         raw_text : Texts]
        \cup [container_visible : {FALSE}, outer : {<<<<"Acme", " ", "Corp">>>>},
              summary_visible : {TRUE}, raw_text : Texts]

\* scrapers/utils.py 10-17: scroll_to_half and scroll_to_bottom are plain
\* functions that return None, and education.py 34 and 36 await what they
\* return
ScrollAwaitable == FALSE

\* the pages scrape_educations is called on: the way to the details page
\* (lines 28 and 31) works or raises, and the list shows one item
EducationPages == [nav : {"ok", "raises"}, item : EducationItems]

\* scrape_educations: the exception that leaves the call, "none" when it
\* returns, and the educations added to the person
scrape_educations(page) ==
    IF page.nav = "raises" THEN [raised |-> "nav", educations |-> <<>>]
    ELSE IF ~ScrollAwaitable THEN [raised |-> "TypeError", educations |-> <<>>]
    ELSE [raised |-> "none",
          educations |-> IF page.item.container_visible
                         THEN <<EducationOf(page.item)>> ELSE <<>>]

EducationInit ==
    /\ fin \in EducationPages
    /\ fout = NotYet
    /\ fpc = "in"
    /\ PageIdle
    /\ NormIdle
    /\ fields = {}
    /\ max_pages = 0
    /\ srcPages = 0
    /\ site = {}
    /\ CompanyFresh
    /\ PersonIdle

\* one call of scrape_educations
ScrapeEducation ==
    /\ fpc = "in"
    /\ fout' = scrape_educations(fin)
    /\ fpc' = "out"
    /\ UNCHANGED <<fin, normVars, companyVars, personVars, pageVars>>

SpecEducation == EducationInit /\ [][ScrapeEducation]_vars

\* ------------------------------------------------------------------------
\* The two date parsers side by side: _parse_work_times of a work-times
\* text, and parse_date_range_smart of its part before the Sep
\* ------------------------------------------------------------------------

\* the text after the dates: nothing, or "Sep 2 yrs"
DurationTails == {<<>>, <<" ", Sep, " ", "2", " ", "yrs">>}

WorkTimesTexts == {d \o t : d \in DateTexts, t \in DurationTails}

\* parts[0].strip() of work_times.split(Sep)
DatePart(work_times) == StripStr(SplitStr(work_times, <<Sep>>)[1])

WorkTimesInit ==
    /\ fin \in WorkTimesTexts
    /\ fout = NotYet
    /\ fpc = "in"
    /\ PageIdle
    /\ NormIdle
    /\ fields = {}
    /\ max_pages = 0
    /\ srcPages = 0
    /\ site = {}
    /\ CompanyFresh
    /\ PersonIdle

ParseWorkTimes ==
    /\ fpc = "in"
    /\ fout' = [times_info |-> TextsOf(_parse_work_times(Flat(fin))),
                smart      |-> TextsOf(parse_date_range_smart(DatePart(Flat(fin))))]
    /\ fpc' = "out"
    /\ UNCHANGED fin
    /\ UNCHANGED <<normVars, companyVars, personVars, pageVars>>

SpecWorkTimes == WorkTimesInit /\ [][ParseWorkTimes]_vars

\* ------------------------------------------------------------------------
\* The /about page: scrape_company_details (scrapers/company/about.py) and
\* scrape_affiliated_pages (scrapers/company/showcase.py) on a new Company.
\* In the hrefs "p" reads "/company/acme", "P" "/company/Acme" and "q"
\* "/showcase/acme-ai".
\* ------------------------------------------------------------------------
MaxRows == 2

\* scrapers/company/utils.py clean_company_url
clean_company_url(url) ==
    IF url = <<>> THEN url
    ELSE LET joined == IF StartsWithHttp(url) THEN url ELSE Urljoin(url)
         IN  Rstrip(SplitHead(joined, "?"))

\* pydantic's HttpUrl(url) raises for a URL without scheme and host
HttpUrlAccepts(url) == Len(url) > 0 /\ url[1] \in {"O", "M", "U", "S"}

\* the place behind the host letters that begin at place k of s
RECURSIVE HostEnd(_, _)
HostEnd(s, k) == IF k <= Len(s) /\ s[k] = "x" THEN HostEnd(s, k + 1) ELSE k

\* pydantic's HttpUrl(url) for a url it accepts: scheme and host are
\* written in lower case, an empty path becomes "/", and the path, the
\* query string and the fragment are kept
HttpUrl(url) ==
    LET head == IF url[1] \in {"M", "U"} THEN "O" ELSE url[1]
        body == Tail(url)
        end  == CASE head = "O" -> HostEnd(body, 1)
                  [] head = "S" /\ Len(body) >= 2 /\ body[2] = "/" -> HostEnd(body, 3)
                  [] OTHER -> 0
        bare == end > 0 /\ (end > Len(body) \/ body[end] \in {"?", "#"})
    IN  IF bare
        THEN <<head>> \o SubSeq(body, 1, end - 1) \o <<"/">> \o SubSeq(body, end, Len(body))
        ELSE <<head>> \o body

\* the members of the enum CompanyScrapingFields
CompanyScrapingFieldsMembers == {"SHOWCASE_PAGES", "AFFILIATED_COMPANIES", "MINIMAL", "ALL"}

\* [s.strip() for s in value_text.split(",") if s.strip()]
SpecialtiesOf(value_text) ==
    LET parts == SplitStr(Flat(value_text), <<",">>)
        kept == SelectSeq([k \in 1..Len(parts) |-> StripStr(parts[k])], LAMBDA s : s # <<>>)
    IN  [k \in 1..Len(kept) |-> TextOf(kept[k])]

\* dt/dd rows: label and the texts of the dd elements behind it
AboutRows ==
    { [label |-> "Specialties", dd |-> << <<"AI", ",", " ", "Cloud">> >>],
      [label |-> "Specialties", dd |-> << <<"Data">> >>],
      [label |-> "Specialties", dd |-> <<>>],
      [label |-> "Industry", dd |-> << <<"Software">> >>] }

\* li items of the "Affiliated pages" list: visibility, number of links,
\* href and inner text of the text link
SidebarItems ==
    { [visible |-> TRUE, links |-> 2, href |-> <<"p">>,
       text |-> <<"Acme", "\n", "Software">>],
      [visible |-> TRUE, links |-> 2, href |-> <<"U", "P", "/", "?", "x">>,
       text |-> <<"Acme", "\n", "Software">>],
      [visible |-> TRUE, links |-> 2, href |-> <<"q">>,
       text |-> <<"Acme AI", "\n", "Showcase page">>],
      [visible |-> TRUE, links |-> 2, href |-> <<"q", "#", "x">>,
       text |-> <<"Acme AI", "\n", "Showcase page">>],
      [visible |-> TRUE, links |-> 2, href |-> <<>>, text |-> <<"Acme">>],
      [visible |-> TRUE, links |-> 2, href |-> <<"/">>, text |-> <<"LinkedIn">>],
      [visible |-> TRUE, links |-> 1, href |-> <<"p">>, text |-> <<"Acme">>],
      [visible |-> FALSE, links |-> 2, href |-> <<"p">>, text |-> <<"Acme">>],
      [visible |-> TRUE, links |-> 2, href |-> <<"p">>, text |-> <<" ">>] }

AboutInit ==
    /\ rows \in SeqsUpTo(AboutRows, MaxRows)
    /\ sidebar \in SeqsUpTo(SidebarItems, MaxItems)
    /\ apc = "details"
    /\ ai = 1
    /\ specialties = <<>>
    /\ showcase_pages = <<>>
    /\ affiliated_companies = <<>>
    /\ FollowersIdle
    /\ SessionNew
    /\ ContactsIdle
    /\ TextIdle
    /\ NormIdle
    /\ fields = {}
    /\ max_pages = 0
    /\ srcPages = 0
    /\ site = {}
    /\ CompanyFresh
    /\ PersonIdle

\* one pass of the dt loop of scrape_company_details (about.py 49-116)
DetailsRow ==
    /\ apc = "details"
    /\ ai <= Len(rows)
    /\ specialties' = IF rows[ai].dd # <<>> /\ rows[ai].label = "Specialties"
                      THEN SpecialtiesOf(rows[ai].dd[1])
                      ELSE specialties
    /\ ai' = ai + 1
    /\ UNCHANGED <<rows, sidebar, apc, showcase_pages, affiliated_companies>>
    /\ UNCHANGED <<normVars, companyVars, personVars, textVars, followerVars, sessionVars, contactVars>>

\* scrape_company_details returns and scrape_affiliated_pages looks for the
\* "Affiliated pages" list (showcase.py 29-62); it returns when there is none
AffiliatedEnter ==
    /\ apc = "details"
    /\ ai > Len(rows)
    /\ apc' = IF sidebar = <<>> THEN "done" ELSE "sidebar"
    /\ ai' = 1
    /\ UNCHANGED <<rows, sidebar, specialties, showcase_pages, affiliated_companies>>
    /\ UNCHANGED <<normVars, companyVars, personVars, textVars, followerVars, sessionVars, contactVars>>

\* one pass of the loop over the sidebar items (showcase.py 64-123)
SidebarItem ==
    /\ apc = "sidebar"
    /\ ai <= Len(sidebar)
    /\ LET item == sidebar[ai]
           link_text == StripStr(Flat(item.text))
           lines == SplitStr(link_text, <<"\n">>)
           name == TextOf(StripStr(lines[1]))
           kept == /\ item.visible
                   /\ item.links >= 2
                   /\ item.href # <<>>
                   /\ link_text # <<>>
                   /\ name # <<>>
           page_summary == [name |-> name,
                            linkedin_url |-> HttpUrl(clean_company_url(item.href))]
           is_showcase == ContainsStr(link_text, Str("Showcase page"))
       IN  /\ showcase_pages' = IF kept /\ is_showcase
                                THEN Append(showcase_pages, page_summary)
                                ELSE showcase_pages
           /\ affiliated_companies' = IF kept /\ ~is_showcase
                                      THEN Append(affiliated_companies, page_summary)
                                      ELSE affiliated_companies
    /\ ai' = ai + 1
    /\ UNCHANGED <<rows, sidebar, apc, specialties>>
    /\ UNCHANGED <<normVars, companyVars, personVars, textVars, followerVars, sessionVars, contactVars>>

\* showcase.py 127-249: CompanyScrapingFields.AFFILIATED_PAGES is read; the
\* enum has no such member, the AttributeError is caught at line 247 and the
\* lists keep the sidebar entries.  Were it a member, lines 130-131 would
\* empty both lists before the modal is read.
AffiliatedModal ==
    /\ apc = "sidebar"
    /\ ai > Len(sidebar)
    /\ IF "AFFILIATED_PAGES" \in CompanyScrapingFieldsMembers
       THEN showcase_pages' = <<>> /\ affiliated_companies' = <<>>
       ELSE UNCHANGED <<showcase_pages, affiliated_companies>>
    /\ apc' = "done"
    /\ UNCHANGED <<rows, sidebar, ai, specialties>>
    /\ UNCHANGED <<normVars, companyVars, personVars, textVars, followerVars, sessionVars, contactVars>>

AboutNext == DetailsRow \/ AffiliatedEnter \/ SidebarItem \/ AffiliatedModal

SpecAbout == AboutInit /\ [][AboutNext]_vars

\* ------------------------------------------------------------------------
\* scrape_company_followers (scrapers/company/followers.py)
\* ------------------------------------------------------------------------
MaxClicks == 3

\* li items of the dialog: the href of the profile link, <<>> when there is
\* no visible link or no href
FollowerItems == CardHrefs

FollowersInit ==
    /\ wpc = "goto"
    /\ wbutton = FALSE
    /\ wclicks = 0
    /\ witems \in SeqsUpTo(FollowerItems, MaxItems)
    /\ wi = 1
    /\ AboutIdle
    /\ SessionNew
    /\ ContactsIdle
    /\ TextIdle
    /\ NormIdle
    /\ fields = {}
    /\ max_pages = 0
    /\ srcPages = 0
    /\ site = {}
    /\ CompanyFresh
    /\ PersonIdle

\* lines 31-41: page.goto raises, the dialog is not visible, or it is and
\* the loop is entered; the page decides whether the button is shown
FollowersOpen ==
    /\ wpc = "goto"
    /\ \E r \in {"raises", "no_dialog", "dialog"} :
          /\ wpc' = IF r = "dialog" THEN "loop" ELSE "returned"
          /\ wbutton' \in (IF r = "dialog" THEN BOOLEAN ELSE {FALSE})
    /\ UNCHANGED <<wclicks, witems, wi>>
    /\ UNCHANGED <<normVars, companyVars, personVars, textVars, aboutVars, sessionVars, contactVars>>

\* lines 44-53, one pass of "while True" with the button visible: the click
\* raises and the loop is left; or the click works and the wait after it
\* (line 49) raises, and the loop is left with the click made; or both work
\* and the page decides whether the button is shown again
FollowersShowMore ==
    /\ wpc = "loop"
    /\ wbutton
    /\ \E r \in {"raises", "wait_raises", "clicked"} :
          /\ wpc' = IF r = "clicked" THEN "loop" ELSE "count"
          /\ wclicks' = IF r = "raises" THEN wclicks ELSE (wclicks + 1) % (MaxClicks + 1)
          /\ wbutton' \in (IF r = "clicked" THEN BOOLEAN ELSE {wbutton})
    /\ UNCHANGED <<witems, wi>>
    /\ UNCHANGED <<normVars, companyVars, personVars, textVars, aboutVars, sessionVars, contactVars>>

\* lines 50-51: the button is not there, break
FollowersLoopExit ==
    /\ wpc = "loop"
    /\ ~wbutton
    /\ wpc' = "count"
    /\ UNCHANGED <<wbutton, wclicks, witems, wi>>
    /\ UNCHANGED <<normVars, companyVars, personVars, textVars, aboutVars, sessionVars, contactVars>>

\* lines 56-57: items.count() delivers the number of li items and the loop
\* over them begins, or it raises, the except of lines 135-137 swallows the
\* exception and the function returns without a look at any item
FollowersCount ==
    /\ wpc = "count"
    /\ \E r \in {"raises", "counted"} :
          wpc' = IF r = "counted" THEN "items" ELSE "returned"
    /\ UNCHANGED <<wbutton, wclicks, witems, wi>>
    /\ UNCHANGED <<normVars, companyVars, personVars, textVars, aboutVars, sessionVars, contactVars>>

\* lines 59-131, one pass of the loop over the items: an item without link
\* or href is skipped; for the others Follower(...) is built, a name that
\* models/company.py does not define, and the exception is caught at line
\* 130: nothing is stored
FollowersItem ==
    /\ wpc = "items"
    /\ wi <= Len(witems)
    /\ wi' = wi + 1
    /\ UNCHANGED <<wpc, wbutton, wclicks, witems>>
    /\ UNCHANGED <<normVars, companyVars, personVars, textVars, aboutVars, sessionVars, contactVars>>

\* the items are used up and the function returns
FollowersReturn ==
    /\ wpc = "items"
    /\ wi > Len(witems)
    /\ wpc' = "returned"
    /\ UNCHANGED <<wbutton, wclicks, witems, wi>>
    /\ UNCHANGED <<normVars, companyVars, personVars, textVars, aboutVars, sessionVars, contactVars>>

FollowersNext ==
    \/ FollowersOpen
    \/ FollowersShowMore
    \/ FollowersLoopExit
    \/ FollowersCount
    \/ FollowersItem
    \/ FollowersReturn

\* the coroutine is run to its end by the event loop
SpecFollowers == FollowersInit /\ [][FollowersNext]_vars /\ WF_vars(FollowersNext)

\* ------------------------------------------------------------------------
\* LinkedInSession (session.py): enter, close and get_profile in any order
\* ------------------------------------------------------------------------
MaxOps == 4

\* is_authenticated without the flag, the page alone deciding
PageIsSet(authenticated, page) == page

\* LinkedInSession.is_authenticated
is_authenticated(authenticated, page) == authenticated /\ page

Did(op, out) == [op |-> op, out |-> out]

SessionInit ==
    /\ SessionNew
    /\ AboutIdle
    /\ FollowersIdle
    /\ ContactsIdle
    /\ TextIdle
    /\ NormIdle
    /\ fields = {}
    /\ max_pages = 0
    /\ srcPages = 0
    /\ site = {}
    /\ CompanyFresh
    /\ PersonIdle

\* the operations called so far: those that came back and those a task is
\* suspended in
Called == Len(shist) + Cardinality({t \in Tasks : stasks[t].pc # "idle"})

\* the except branch of __aenter__ (lines 153-157) in task t, the failure
\* being why: the manager the session holds at that moment is exited and the
\* task waits for it; without a manager the exception goes on at once
EnterFails(t, why) ==
    IF sbrowser # 0
    THEN /\ sexits' = [sexits EXCEPT ![sbrowser] = @ + 1]
         /\ stasks' = [stasks EXCEPT ![t] = [pc |-> "cleanup", why |-> why]]
         /\ UNCHANGED shist
    ELSE /\ shist' = Append(shist, Did("enter", why))
         /\ stasks' = [stasks EXCEPT ![t] = IdleTask]
         /\ UNCHANGED sexits

\* __aenter__, line 148 and the call of line 149: a new
\* BrowserContextManager is stored and entered; the task waits for the
\* browser to start
SessionEnter ==
    /\ Called < MaxOps
    /\ \E t \in Tasks :
          /\ stasks[t].pc = "idle"
          /\ stasks' = [stasks EXCEPT ![t] = [pc |-> "browser", why |-> "none"]]
    /\ sexits' = Append(sexits, 0)
    /\ sbrowser' = Len(sexits) + 1
    /\ UNCHANGED <<scontext, spage, sauth, sgood, shist, snav>>
    /\ UNCHANGED <<normVars, companyVars, personVars, textVars, aboutVars, followerVars, contactVars>>

\* line 149 comes back: the context is stored and the login of line 150 is
\* called, or the browser did not start
SessionEnterBrowser ==
    /\ \E t \in Tasks :
          /\ stasks[t].pc = "browser"
          /\ \E r \in {"ok", "browser_raises"} :
                IF r = "ok"
                THEN /\ scontext' = TRUE
                     /\ stasks' = [stasks EXCEPT ![t] = [pc |-> "login", why |-> "none"]]
                     /\ UNCHANGED <<sexits, shist>>
                ELSE /\ EnterFails(t, r)
                     /\ UNCHANGED scontext
    /\ UNCHANGED <<sbrowser, spage, sauth, sgood, snav>>
    /\ UNCHANGED <<normVars, companyVars, personVars, textVars, aboutVars, followerVars, contactVars>>

\* line 150 comes back: the page is stored, the flag set (line 151) and the
\* session returned, or the login raised
SessionEnterLogin ==
    /\ \E t \in Tasks :
          /\ stasks[t].pc = "login"
          /\ \E r \in {"ok", "login_raises"} :
                IF r = "ok"
                THEN /\ spage' = TRUE
                     /\ sauth' = TRUE
                     /\ sgood' = TRUE
                     /\ shist' = Append(shist, Did("enter", "ok"))
                     /\ stasks' = [stasks EXCEPT ![t] = IdleTask]
                     /\ UNCHANGED sexits
                ELSE /\ EnterFails(t, r)
                     /\ UNCHANGED <<spage, sauth, sgood>>
    /\ UNCHANGED <<sbrowser, scontext, snav>>
    /\ UNCHANGED <<normVars, companyVars, personVars, textVars, aboutVars, followerVars, contactVars>>

\* line 156 comes back and the failure goes on to the caller of __aenter__
\* (line 157), or line 156 raises and its exception goes to the caller instead
SessionEnterRaise ==
    /\ \E t \in Tasks :
          /\ stasks[t].pc = "cleanup"
          /\ \E r \in {"ok", "exit_raises"} :
                shist' = Append(shist, Did("enter", IF r = "ok" THEN stasks[t].why ELSE r))
          /\ stasks' = [stasks EXCEPT ![t] = IdleTask]
    /\ UNCHANGED <<sbrowser, scontext, spage, sauth, sgood, snav, sexits>>
    /\ UNCHANGED <<normVars, companyVars, personVars, textVars, aboutVars, followerVars, contactVars>>

\* close, also reached through __aexit__, lines 138-140: the flag is cleared
\* first; the browser manager, when there is one, is exited and the task
\* waits for it; without one lines 142-143 run at once
SessionClose ==
    /\ Called < MaxOps
    /\ sauth' = FALSE
    /\ sgood' = FALSE
    /\ \E t \in Tasks :
          /\ stasks[t].pc = "idle"
          /\ IF sbrowser # 0
             THEN /\ sexits' = [sexits EXCEPT ![sbrowser] = @ + 1]
                  /\ stasks' = [stasks EXCEPT ![t] = [pc |-> "closing", why |-> "none"]]
                  /\ UNCHANGED <<scontext, spage, shist>>
             ELSE /\ scontext' = FALSE
                  /\ spage' = FALSE
                  /\ shist' = Append(shist, Did("close", "ok"))
                  /\ UNCHANGED <<sexits, stasks>>
    /\ UNCHANGED <<sbrowser, snav>>
    /\ UNCHANGED <<normVars, companyVars, personVars, textVars, aboutVars, followerVars, contactVars>>

\* line 140 comes back and lines 141-143 clear the manager, the context and
\* the page the session holds by then; or it raises and leaves them undone
SessionClosed ==
    /\ \E t \in Tasks :
          /\ stasks[t].pc = "closing"
          /\ stasks' = [stasks EXCEPT ![t] = IdleTask]
    /\ \E r \in {"ok", "exit_raises"} :
          /\ sbrowser' = IF r = "ok" THEN 0 ELSE sbrowser
          /\ scontext' = IF r = "ok" THEN FALSE ELSE scontext
          /\ spage' = IF r = "ok" THEN FALSE ELSE spage
          /\ shist' = Append(shist, Did("close", r))
    /\ UNCHANGED <<sauth, sgood, snav, sexits>>
    /\ UNCHANGED <<normVars, companyVars, personVars, textVars, aboutVars, followerVars, contactVars>>

\* get_profile, lines 98-102, up to the first await of scrape_profile
\* (get_person.py 38-41): _ensure_authenticated raises RuntimeError, or it
\* returns the page, PersonScraper(page) is built, HttpUrl(url) raises for
\* a url that is none, or page.goto is called and the task waits for it
SessionGetProfile ==
    /\ Called < MaxOps
    /\ \E t \in Tasks :
          /\ stasks[t].pc = "idle"
          /\ IF ~is_authenticated(sauth, spage)
             THEN /\ shist' = Append(shist, Did("get_profile", "RuntimeError"))
                  /\ UNCHANGED <<snav, stasks>>
             ELSE \E u \in {"ok", "url_raises"} :
                     IF u = "ok"
                     THEN /\ snav' = snav + 1
                          /\ stasks' = [stasks EXCEPT ![t] = [pc |-> "scraping", why |-> "none"]]
                          /\ UNCHANGED shist
                     ELSE /\ shist' = Append(shist, Did("get_profile", u))
                          /\ UNCHANGED <<snav, stasks>>
    /\ UNCHANGED <<sbrowser, scontext, spage, sauth, sgood, sexits>>
    /\ UNCHANGED <<normVars, companyVars, personVars, textVars, aboutVars, followerVars, contactVars>>

\* line 102 comes back: scrape_profile, which with the default fields reads
\* the profile page only, returns the Person or raises; the session may
\* have been closed by the other task in between
SessionGetProfileDone ==
    /\ \E t \in Tasks :
          /\ stasks[t].pc = "scraping"
          /\ stasks' = [stasks EXCEPT ![t] = IdleTask]
    /\ \E r \in {"ok", "scrape_raises"} :
          shist' = Append(shist, Did("get_profile", IF r = "ok" THEN "page" ELSE r))
    /\ UNCHANGED <<sbrowser, scontext, spage, sauth, sgood, snav, sexits>>
    /\ UNCHANGED <<normVars, companyVars, personVars, textVars, aboutVars, followerVars, contactVars>>

SessionNext ==
    \/ SessionEnter
    \/ SessionEnterBrowser
    \/ SessionEnterLogin
    \/ SessionEnterRaise
    \/ SessionClose
    \/ SessionClosed
    \/ SessionGetProfile
    \/ SessionGetProfileDone

SpecSession == SessionInit /\ [][SessionNext]_vars

\* ------------------------------------------------------------------------
\* PasswordAuth._authenticate (auth/password.py)
\* ------------------------------------------------------------------------
\* what the login meets: whether goto, fill and press work, where the
\* browser is after the form was sent, what the page shows, and whether the
\* user got through the challenge in interactive mode: the browser is on
\* the feed then, and stays where it was otherwise
LoginCases ==
    [interactive : BOOLEAN,
     form : {"works", "raises"},
     url : {"challenge", "checkpoint", "feed", "login"},
     challenge_text : BOOLEAN,
     wrong_credentials_text : BOOLEAN,
     solved : BOOLEAN]

Returns(v) == [kind |-> "returns", value |-> v]

Raises(e) == [kind |-> "raises", value |-> e]

\* auth/base.py is_logged_in: it looks at the URL of the page only
is_logged_in(url) == url = "feed"

\* _handle_post_login_scenarios; after is page.url when input() has come
\* back or the wait of line 88 is over, which is what line 89 looks at
_handle_post_login_scenarios(c) ==
    IF c.url \in {"challenge", "checkpoint"} \/ c.challenge_text
    THEN IF c.interactive
         THEN LET after == IF c.solved THEN "feed" ELSE c.url
              IN  Returns(is_logged_in(after))
         ELSE Raises("SecurityChallengeError")
    ELSE IF is_logged_in(c.url) THEN Returns(TRUE)
    ELSE IF c.wrong_credentials_text THEN Raises("InvalidCredentialsError")
    ELSE Raises("LoginTimeoutError")

\* _authenticate: everything between try and except, the call of
\* _handle_post_login_scenarios included; "except Exception" turns whatever
\* was raised into LoginTimeoutError
_authenticate(c) ==
    LET body == IF c.form = "raises" THEN Raises("TimeoutError")
                ELSE _handle_post_login_scenarios(c)
    IN  IF body.kind = "raises" THEN Raises("LoginTimeoutError") ELSE body

AuthInit ==
    /\ fin \in LoginCases
    /\ fout = NotYet
    /\ fpc = "in"
    /\ PageIdle
    /\ NormIdle
    /\ fields = {}
    /\ max_pages = 0
    /\ srcPages = 0
    /\ site = {}
    /\ CompanyFresh
    /\ PersonIdle

Authenticate ==
    /\ fpc = "in"
    /\ fout' = _authenticate(fin)
    /\ fpc' = "out"
    /\ UNCHANGED fin
    /\ UNCHANGED <<normVars, companyVars, personVars, pageVars>>

SpecAuth == AuthInit /\ [][Authenticate]_vars

\* ------------------------------------------------------------------------
\* The connections list of a person: _scrape_connections_list
\* (scrapers/person/contacts.py)
\* ------------------------------------------------------------------------

\* most profile links a page shows
MaxLinks == 22

\* max_connections of each of the three strategies
max_connections == 20

\* the profile paths the links point at
ProfilePaths ==
    <<"/in/p01", "/in/p02", "/in/p03", "/in/p04", "/in/p05", "/in/p06",
      "/in/p07", "/in/p08", "/in/p09", "/in/p10", "/in/p11", "/in/p12",
      "/in/p13", "/in/p14", "/in/p15", "/in/p16", "/in/p17", "/in/p18",
      "/in/p19", "/in/p20", "/in/p21", "/in/p22", "/in/p23", "/in/p24">>

\* the markers the code looks for in page.url.lower(); a URL is the set of
\* the markers it contains
UrlKinds ==
    {{"connections", "mynetwork"}, {"network-manager/people", "mynetwork"},
     {"mynetwork"}, {"search/results/people"}, {"connections"}, {}}

\* the pages: where the browser ends, how many profile links there are, how
\* many different profiles they point at, where the names are found, and
\* whether the links sit in .mn-connection-card elements
ContactPages ==
    [url : UrlKinds, n : 0..MaxLinks, distinct : {"one", "two", "many"},
     names : {"structured", "text", "mixed"}, cards : BOOLEAN]

\* the i-th profile link of page pg: all links point at one profile, at two
\* in turn, or the first two at one profile and every later one at a profile
\* of its own; the same profile is written relative, absolute in upper case
\* with a query string, or absolute with a fragment
Link(pg, i) ==
    LET id   == CASE pg.distinct = "one" -> 1
                  [] pg.distinct = "two" -> ((i - 1) % 2) + 1
                  [] OTHER -> IF i = 1 THEN 1 ELSE i - 1
        path == ProfilePaths[id]
    IN  [href     |-> CASE i % 3 = 1 -> <<path>>
                        [] i % 3 = 2 -> <<"O", path, "#", "x">>
                        [] OTHER -> <<"U", path, "/", "?", "x">>,
         visible  |-> pg.names # "mixed" \/ i % 4 # 0,
         name_el  |-> IF pg.names = "structured" \/ (pg.names = "mixed" /\ i % 2 = 0)
                      THEN "Ann" ELSE "",
         text     |-> IF pg.names = "text" \/ (pg.names = "mixed" /\ i % 5 # 0)
                      THEN "Bob" ELSE "",
         headline |-> IF i % 2 = 0 THEN "Engineer" ELSE "",
         fault    |-> IF pg.names = "mixed" /\ i % 7 = 3 THEN "early"
                      ELSE IF pg.names = "mixed" /\ i % 7 = 5 THEN "late"
                      ELSE "none"]

\* the number of elements the locator of a strategy delivers
ElementCount(pg, strategy) ==
    IF strategy = "cards" /\ ~pg.cards THEN 0 ELSE pg.n

\* href as a strategy reads it: the cards and list strategies read it only
\* from a visible link, the generic strategy from any link
HrefSeen(link, strategy) ==
    IF strategy \in {"cards", "list"} /\ ~link.visible THEN <<>> ELSE link.href

\* the lookups of one pass that a late fault can hit: the structured name
\* element, the headline element, the text of the link or of the block
\* around it
LatePlaces == {"name", "headline", "text"}

\* the lookup that raises in this pass, "none" when the link has no late fault
FaultAt(link, at) == IF link.fault = "late" THEN at ELSE "none"

\* the structured name as a strategy gets it: the generic strategy reads it
\* inside a try of its own (lines 409-429) and is left with "" when a lookup
\* in there raises
StructuredName(link, strategy, at) ==
    IF strategy = "generic" /\ FaultAt(link, at) = "name" THEN "" ELSE link.name_el

\* the name a strategy finds: the structured element, and outside the cards
\* strategy the text of the link or of the block around it
NameSeen(link, strategy, at) ==
    IF StructuredName(link, strategy, at) # "" THEN StructuredName(link, strategy, at)
    ELSE IF strategy = "cards" THEN ""
    ELSE link.text

\* the headline a strategy finds; in the generic strategy a raise at the
\* name or the headline lookup leaves it ""
HeadlineSeen(link, strategy, at) ==
    IF strategy = "generic" /\ FaultAt(link, at) \in {"name", "headline"} THEN ""
    ELSE link.headline

\* the pass ends in the except of the loop: the name or headline lookup
\* raises outside the generic strategy, or the text raises where it is read,
\* which is where no structured name was found and never in the cards
\* strategy
PassRaises(link, strategy, at) ==
    \/ strategy # "generic" /\ FaultAt(link, at) \in {"name", "headline"}
    \/ /\ strategy # "cards"
       /\ FaultAt(link, at) = "text"
       /\ StructuredName(link, strategy, at) = ""

\* a test that takes every URL for new
SeenBeforeNever(clean_url, seen_urls) == FALSE

\* clean_url in seen_urls
SeenBefore(clean_url, seen_urls) == clean_url \in seen_urls

\* the strategy tried after one that added nothing
NextStrategy(strategy, current_url) ==
    IF strategy = "cards" /\ "network-manager/people" \in current_url THEN "list"
    ELSE IF strategy \in {"cards", "list"} THEN "generic"
    ELSE "none"

\* any(x in current_url for x in [...])
ConnectionsLike(current_url) ==
    current_url \cap {"connections", "network-manager/people",
                      "search/results/people", "mynetwork"} # {}

ContactsInit ==
    /\ kpage \in ContactPages
    /\ kurl = {}
    /\ kpc = "open"
    /\ kstrategy = "none"
    /\ ki = 0
    /\ kseen = {}
    /\ kadded = 0
    /\ kran = <<>>
    /\ connections = <<>>
    /\ AboutIdle
    /\ FollowersIdle
    /\ SessionNew
    /\ TextIdle
    /\ NormIdle
    /\ fields = {}
    /\ max_pages = 0
    /\ srcPages = 0
    /\ site = {}
    /\ CompanyFresh
    /\ PersonIdle

\* from the profile to the page with the list, the two scrolls and the test
\* before the cards strategy; page.locator(...).count() is not awaited, so
\* its comparison with 0 raises whenever "mynetwork" is not in the URL
ConnectionsOpen ==
    /\ kpc = "open"
    /\ \E nav \in {"navigated", "not_navigated", "raises"},
          land \in {"lands", "stays", "raises"},
          scroll \in {"ok", "raises"} :
          LET current_url ==
                  IF ConnectionsLike(kpage.url) THEN kpage.url
                  ELSE IF land = "lands" THEN {"network-manager/people", "mynetwork"}
                  ELSE kpage.url
              through == /\ nav = "navigated"
                         /\ ConnectionsLike(kpage.url) \/ land # "raises"
                         /\ scroll = "ok"
                         /\ "mynetwork" \in current_url
          IN  /\ kurl' = IF through THEN current_url ELSE kurl
              /\ kpc' = IF through THEN "enter" ELSE "returned"
              /\ kstrategy' = IF through THEN "cards" ELSE kstrategy
    /\ UNCHANGED <<kpage, ki, kseen, kadded, kran, connections>>
    /\ UNCHANGED <<normVars, companyVars, personVars, textVars, aboutVars,
                   followerVars, sessionVars>>

\* the start of a strategy: its locator's all() delivers the elements or
\* raises; the cards and list strategies then give way to the next one, the
\* generic one ends the function
ConnectionsEnter ==
    /\ kpc = "enter"
    /\ kran' = Append(kran, kstrategy)
    /\ \E r \in {"ok", "raises"} :
          IF r = "ok"
          THEN /\ kpc' = "loop"
               /\ ki' = 0
               /\ kseen' = {}
               /\ kadded' = 0
               /\ UNCHANGED kstrategy
          ELSE /\ kstrategy' = NextStrategy(kstrategy, kurl)
               /\ kpc' = IF kstrategy = "generic" THEN "returned" ELSE "enter"
               /\ UNCHANGED <<ki, kseen, kadded>>
    /\ UNCHANGED <<kpage, kurl, connections>>
    /\ UNCHANGED <<normVars, companyVars, personVars, textVars, aboutVars,
                   followerVars, sessionVars>>

\* one pass of a strategy's loop
ConnectionsItem ==
    /\ kpc = "loop"
    /\ ki < ElementCount(kpage, kstrategy)
    /\ kadded < max_connections
    /\ ki' = ki + 1
    /\ LET link      == Link(kpage, ki + 1)
           href      == HrefSeen(link, kstrategy)
           clean_url == normalize_profile_url(href)
       IN  IF link.fault = "early" \/ href = <<>> \/ SeenBefore(clean_url, kseen)
           THEN UNCHANGED <<kseen, kadded, connections>>
           ELSE /\ kseen' = kseen \cup {clean_url}
                /\ \E at \in LatePlaces :
                      LET name     == NameSeen(link, kstrategy, at)
                          headline == HeadlineSeen(link, kstrategy, at)
                      IN  IF PassRaises(link, kstrategy, at) \/ name = ""
                          THEN UNCHANGED <<kadded, connections>>
                          ELSE /\ connections' =
                                    Append(connections,
                                           [name     |-> name,
                                            headline |-> IF headline = "" THEN "None"
                                                         ELSE headline,
                                            url      |-> HttpUrl(clean_url)])
                               /\ kadded' = kadded + 1
    /\ UNCHANGED <<kpage, kurl, kpc, kstrategy, kran>>
    /\ UNCHANGED <<normVars, companyVars, personVars, textVars, aboutVars,
                   followerVars, sessionVars>>

\* the end of a strategy's loop: the cards and list strategies return when
\* they added something and give way otherwise
ConnectionsExit ==
    /\ kpc = "loop"
    /\ ki >= ElementCount(kpage, kstrategy) \/ kadded >= max_connections
    /\ IF kstrategy = "generic" \/ kadded > 0
       THEN kpc' = "returned" /\ UNCHANGED kstrategy
       ELSE kpc' = "enter" /\ kstrategy' = NextStrategy(kstrategy, kurl)
    /\ UNCHANGED <<kpage, kurl, ki, kseen, kadded, kran, connections>>
    /\ UNCHANGED <<normVars, companyVars, personVars, textVars, aboutVars,
                   followerVars, sessionVars>>

ContactsNext ==
    \/ ConnectionsOpen
    \/ ConnectionsEnter
    \/ ConnectionsItem
    \/ ConnectionsExit

SpecContacts == ContactsInit /\ [][ContactsNext]_vars

\* scrapers/person/connections.py _extract_connection_data: None, here <<>>,
\* when the link or the details element is hidden, the href is missing or a
\* lookup raises; else the one dict, with the href as it was read
ExtractConnectionData(link, details_visible, at) ==
    IF \/ link.fault = "early"
       \/ ~link.visible
       \/ link.href = <<>>
       \/ ~details_visible
       \/ FaultAt(link, at) \in {"name", "headline"}
    THEN <<>>
    ELSE <<[name |-> link.name_el, occupation |-> link.headline, url |-> link.href]>>

\* the cards scrape_connections finds with .mn-connection-card: one for each
\* link of a page whose links sit in such elements, none on any other page
CardCount(pg) == IF pg.cards THEN pg.n ELSE 0

\* scrapers/person/connections.py scrape_connections, up to the list of
\* cards: the goto, the wait, the test of the container or the locator's
\* all() raises, or the container is hidden, and the function returns
ScrapeConnectionsOpen ==
    /\ kpc = "open"
    /\ \E r \in {"raises", "hidden", "cards"} :
          kpc' = IF r = "cards" THEN "loop" ELSE "returned"
    /\ kran' = Append(kran, "scrape_connections")
    /\ UNCHANGED <<kpage, kurl, kstrategy, ki, kseen, kadded, connections>>
    /\ UNCHANGED <<normVars, companyVars, personVars, textVars, aboutVars,
                   followerVars, sessionVars>>

\* one card of scrape_connections: whatever _extract_connection_data
\* delivers is appended, without a limit and without a look at the entries
\* made before; HttpUrl refuses a relative href and the card is skipped
ScrapeConnectionsCard ==
    /\ kpc = "loop"
    /\ kran = <<"scrape_connections">>
    /\ ki < CardCount(kpage)
    /\ ki' = ki + 1
    /\ \E details_visible \in BOOLEAN, at \in LatePlaces :
          LET connection_data == ExtractConnectionData(Link(kpage, ki + 1), details_visible, at)
          IN  IF connection_data = <<>>
              THEN UNCHANGED connections
              ELSE IF ~HttpUrlAccepts(connection_data[1].url)
              THEN UNCHANGED connections
              ELSE connections' =
                       Append(connections,
                              [name     |-> connection_data[1].name,
                               headline |-> IF connection_data[1].occupation = "" THEN "None"
                                            ELSE connection_data[1].occupation,
                               url      |-> HttpUrl(connection_data[1].url)])
    /\ UNCHANGED <<kpage, kurl, kpc, kstrategy, kseen, kadded, kran>>
    /\ UNCHANGED <<normVars, companyVars, personVars, textVars, aboutVars,
                   followerVars, sessionVars>>

\* the cards of scrape_connections are used up, at once on a page without
\* cards, and the function returns with what it appended
ScrapeConnectionsExit ==
    /\ kpc = "loop"
    /\ kran = <<"scrape_connections">>
    /\ ki >= CardCount(kpage)
    /\ kpc' = "returned"
    /\ UNCHANGED <<kpage, kurl, kstrategy, ki, kseen, kadded, kran, connections>>
    /\ UNCHANGED <<normVars, companyVars, personVars, textVars, aboutVars,
                   followerVars, sessionVars>>

ScrapeConnectionsNext ==
    \/ ScrapeConnectionsOpen
    \/ ScrapeConnectionsCard
    \/ ScrapeConnectionsExit

\* the pages with few enough cards for every choice of appended cards
MaxCards == 6

SpecScrapeConnections ==
    ContactsInit /\ kpage.n <= MaxCards /\ [][ScrapeConnectionsNext]_vars

\* ------------------------------------------------------------------------
\* Properties
\* ------------------------------------------------------------------------
Range(f) == {f[k] : k \in DOMAIN f}

\* canonical URL of the entity with handle h
CanonOf(h) == <<"O", h>>

\* a is the beginning of b
IsPrefix(a, b) == Len(a) <= Len(b) /\ SubSeq(b, 1, Len(a)) = a

\* site origin in front, no query string, no fragment, no trailing slash,
\* lower case
IsCanonical(url) ==
    /\ Len(url) > 0 /\ url[1] = "O"
    /\ \A k \in 1..Len(url) : url[k] \notin {"?", "#"}
    /\ url[Len(url)] # "/"
    /\ Lower(url) = url

\* index of the first place where part stands in text, or one past the end
\* when it stands nowhere
FirstMention(text, part) ==
    IF ContainsStr(text, part) THEN IndexOfStr(text, part) ELSE Len(text) + 1

\* C1: scrape_employees with max_pages = N on a source with more than N
\* pages, every page loading and every Next click working: cards are walked
\* on exactly the pages 1..N, Next is clicked exactly N-1 times, the run ends
\* as BudgetReached, and the entries returned are exactly the unique
\* well-formed entries met on those pages.
C1_BudgetRespect ==
    (cpc = "emp_return" /\ healthy /\ "search" \in visited /\ srcPages > max_pages)
        => /\ extracted = 1..max_pages
           /\ clicks = max_pages - 1
           /\ outcome = "BudgetReached"
           /\ {e.linkedin_url : e \in Range(employees)} = {CanonOf(h) : h \in wellMet}

\* C2: company.employees never holds two entries with the same canonical
\* URL, and an entity met on two well-formed cards whose raw URLs differ only
\* in query string, fragment, trailing slash or letter case is stored exactly
\* once.
C2_StoredExactlyOnce ==
    /\ \A j, k \in 1..Len(employees) :
           employees[j].linkedin_url = employees[k].linkedin_url => j = k
    /\ \A h \in metTwice :
           Cardinality({k \in 1..Len(storedFrom) : storedFrom[k] = h}) = 1

\* C3: when the extraction of a card raises, every card of the page still
\* goes through the loop body, every entity whose first card was well-formed
\* and did not raise is in company.employees with its canonical URL and name,
\* and the item-level error keys are exactly those of the cards that raised.
C3_PartialFailure ==
    /\ cpc = "emp_advance" => itemsDone = item_count
    /\ \A h \in firstOk :
           \E k \in 1..Len(employees) :
               /\ storedFrom[k] = h
               /\ employees[k].linkedin_url = CanonOf(h)
               /\ employees[k].name = "Ann"
    /\ {i \in 0..MaxItems : ItemKey(i) \in DOMAIN scraping_errors} = raisedIdx

C3_Witness ==
    /\ cpc = "emp_advance"
    /\ page_num = 1
    /\ item_count = 2
    /\ raisedIdx = {0}
    /\ firstOk # {}
    /\ Len(employees) = 1

\* C4: when the collector cannot advance before the budget is reached (the
\* list does not appear in time, the page has no cards, or Next is not
\* visible), it ends as Exhausted without raising: scrape_employees returns
\* with no section-level error recorded for employees, and every entry ever
\* appended is still in company.employees.
C4_ExhaustedIsSuccess ==
    stopCause # "none"
        => /\ outcome = "Exhausted"
           /\ employees = appended
           /\ cpc \in {"emp_return", "returned"}
           /\ cpc = "emp_return"
                => /\ SectionKey("employees") \notin DOMAIN scraping_errors
                   /\ "employees" \notin raisedSteps

C4_Witness ==
    /\ cpc = "emp_return"
    /\ stopCause = "timeout"
    /\ page_num = 2
    /\ max_pages = 2
    /\ Len(employees) >= 1
    /\ outcome = "Exhausted"

\* C5: when PersonScraper.scrape_profile is over, it has returned the Person,
\* every selected step was run, and every step that raised has its key in
\* scraping_errors.
C5_PersonStepIsolation ==
    ppc \in {"returned", "raised"}
        => /\ ppc = "returned"
           /\ \A s \in pfields : \E k \in 1..Len(pstarted) : pstarted[k] = s
           /\ \A s \in praised : SectionKey(s) \in DOMAIN perrors

\* C6: in CompanyScraper.scrape_profile no step's exception reaches the
\* caller; on return every step that raised has its key in scraping_errors
\* and every selected step was run, whatever raised before it.
C6_CompanyStepIsolation ==
    /\ cpc # "raised"
    /\ cpc = "returned"
         => /\ \A s \in raisedSteps : SectionKey(s) \in DOMAIN scraping_errors
            /\ {"basic_info", "details"} \subseteq ran
            /\ AffiliatedSelected(fields) => "affiliated_pages" \in ran
            /\ max_pages > 0 => "employees" \in ran

C6_Witness ==
    /\ cpc = "returned"
    /\ raisedSteps = {"basic_info", "details", "affiliated_pages"}
    /\ "employees" \in ran
    /\ outcome = "BudgetReached"

\* C7: when the company scrape returns, scraping_errors has the key of a
\* section if and only if an exception occurred during that section's
\* extraction (whether it reached the orchestrator or was caught on the way).
C7_ErrorKeyIffFailed ==
    cpc = "returned"
        => \A s \in {"basic_info", "details", "affiliated_pages", "employees"} :
               SectionKey(s) \in DOMAIN scraping_errors
                   <=> s \in raisedSteps \cup swallowedSteps

\* C8: the steps of PersonScraper.scrape_profile are called in the fixed
\* order, each only after the one before it has come back, the page is only
\* where a called step sent it, and a section that is not in the mask is
\* never called and none of its fields is written.
C8_PersonStepOrder ==
    /\ \A j, k \in 1..Len(pstarted) :
           j < k => StepIndex(pstarted[j]) < StepIndex(pstarted[k])
    /\ \A k \in 1..Len(pstarted) :
           /\ pstarted[k] \in pfields
           /\ k < Len(pstarted) => pstarted[k] \in pfinished
    /\ prunning => (pstarted # <<>> /\ pstarted[Len(pstarted)] = ppc)
    /\ \/ ppage = "profile"
       \/ \E k \in 1..Len(pstarted) :
              ppage \in {StepUrl(pstarted[k])} \cup StepLeaves(pstarted[k])
    /\ ptouched \subseteq pfields
    /\ ppc = "returned" => Range(pstarted) = pfields

C8_Witness ==
    /\ pfields = {"basic_info", "contacts"}
    /\ pstarted = <<"basic_info", "contacts">>
    /\ pfinished = {"basic_info", "contacts"}
    /\ ppc = "returned"

\* C9: the employees step runs iff max_pages > 0; with max_pages = 0 the
\* people and search pages are never visited and company.employees is empty
\* on return; basic info and details run for every mask and budget.
C9_EmployeesIffBudget ==
    /\ "employees" \in ran => max_pages > 0
    /\ max_pages = 0 => (employees = <<>> /\ visited \cap {"people", "search"} = {})
    /\ cpc = "returned"
         => /\ "employees" \in ran <=> max_pages > 0
            /\ {"basic_info", "details"} \subseteq ran

C9_Witness ==
    /\ cpc = "returned"
    /\ max_pages = 0
    /\ fields = {"SHOWCASE_PAGES"}
    /\ "affiliated_pages" \in ran
    /\ "employees" \notin ran
    /\ employees = <<>>

\* C10: normalize_profile_url is idempotent: normalising the result of a
\* normalisation gives it back unchanged.
C10_NormalizeIdempotent ==
    npc = "twice" => ntwice = nonce

C10_Witness ==
    /\ npc = "twice"
    /\ nurl = <<"U", "P", "/", "?">>
    /\ nonce = <<"O", "p">>
    /\ ntwice = nonce

\* C11: every card with a profile link, a name and a position text other
\* than the name, whose canonical URL was not seen before in the call, has
\* an Employee in company.employees with that name, that canonical URL and
\* that position.
C11_EmployeeFields ==
    \A h \in owed :
        \E k \in 1..Len(employees) :
            /\ storedFrom[k] = h
            /\ employees[k].name = "Ann"
            /\ employees[k].linkedin_url = CanonOf(h)
            /\ employees[k].designation = "Engineer"

\* a text that is no date range: no dash, no four-digit year before the
\* dash, or a word that belongs to no date
NotADateRange(t) ==
    \/ FirstIndex(t, "-") = 0
    \/ \A k \in 1..Len(SplitHead(t, "-")) : ~MatchesYear(Chars(t[k]))
    \/ \E k \in 1..Len(t) :
           t[k] \in {"Bachelor", "of", "Science", "12345", "Sept", "June"}

\* C12: on "Mon YYYY - Mon YYYY", "YYYY - YYYY", "Mon YYYY - Present" and
\* "YYYY -" is_date_range is true and parse_date_range_smart returns the left
\* side as a non-empty from_date and the right side as to_date; on a text
\* that is no date range is_date_range is false.
C12_DateRanges ==
    fpc = "out"
        => /\ \A f \in DateForms :
                  fin = FormText(f)
                      => /\ fout.isdate
                         /\ fout.dates.from = f.l
                         /\ fout.dates.from # <<>>
                         /\ fout.dates.to = f.r
           /\ NotADateRange(fin) => ~fout.isdate

C12_Witness ==
    /\ fpc = "out"
    /\ fin = <<"Jan", " ", "2020", " ", "-", " ", "Present">>
    /\ fout.isdate
    /\ fout.dates = [from |-> <<"Jan", " ", "2020">>, to |-> <<"Present">>]

\* C13: for an entry [organization Sep employment-type, date-range Sep duration,
\* location] the classifier returns the organization (the text before the
\* separator), the employment type, from and to of the date range, the
\* duration apart from them, and the location; classifying the same entry
\* again gives the same result.
C13_ThreeTokenEntry ==
    /\ fpc = "out"
         => \A e \in ShapeEntries :
                fin = ShapeTokens(e)
                    => /\ fout.company = e.org
                       /\ fout.employment_type = e.type
                       /\ fout.from_date = e.dates.l
                       /\ fout.to_date = e.dates.r
                       /\ fout.duration = e.dur
                       /\ fout.location = e.loc
    /\ fpc = "twice" => fout.first = fout.second

C13_Witness ==
    /\ fpc = "twice"
    /\ fin = << <<"Acme", " ", "Corp", " ", Sep, " ", "Contract">>,
                <<"Jan", " ", "2020", " ", "-", " ", "Dec", " ", "2024", " ", Sep, " ",
                  "2", " ", "yrs">>,
                <<"Berlin,", " ", "Germany">> >>
    /\ fout.second.company = <<"Acme", " ", "Corp">>
    /\ fout.second.employment_type = <<"Contract">>
    /\ fout.second.from_date = <<"Jan", " ", "2020">>
    /\ fout.second.to_date = <<"Dec", " ", "2024">>
    /\ fout.second.duration = <<"2", " ", "yrs">>
    /\ fout.second.location = <<"Berlin,", " ", "Germany">>

\* C14: no skill returned by the splitter, from a text or from the list
\* items of an element, has a line break or an institution word inside, and
\* "Skills: Java Sep Python Sep University of Example" gives Java, Python.
C14_SkillsAreClean ==
    fpc = "out" =>
        /\ \A k \in 1..Len(fout.skills) :
               /\ ~ContainsStr(fout.skills[k], <<"\n">>)
               /\ ~ContainsAny(fout.skills[k], SkillFilterWords)
        /\ (fin.text = <<"Skills:", " ", "Java", " ", Sep, " ", "Python", " ", Sep, " ",
                         "University", " ", "of", " ", "Example">>
                /\ (fin.lists => Len(fin.items) = 1))
               => fout.skills = <<Str("Java"), Str("Python")>>

\* C15: the skills returned by extract_description_and_skills hold no
\* string twice and stand in the order of their first occurrence in the text.
C15_SkillsUnique ==
    (fpc = "out" /\ fin.via = "text") =>
        /\ \A j, k \in 1..Len(fout.skills) :
               j # k => fout.skills[j] # fout.skills[k]
        /\ \A j, k \in 1..Len(fout.skills) :
               j < k => FirstMention(Flat(fin.text), fout.skills[j])
                           < FirstMention(Flat(fin.text), fout.skills[k])
\* C16: during one scrape every list of the aggregate only grows by
\* appending: at every step the list before the step is a prefix of the list
\* after it.
C16_ListsAppendOnly ==
    [][/\ IsPrefix(specialties, specialties')
       /\ IsPrefix(showcase_pages, showcase_pages')
       /\ IsPrefix(affiliated_companies, affiliated_companies')
       /\ IsPrefix(employees, employees')]_vars

\* C17: after scrape_affiliated_pages every stored URL is canonical and no
\* list holds two entries with the same canonical URL.
C17_AffiliatedCanonicalUnique ==
    apc = "done" =>
        \A list \in {showcase_pages, affiliated_companies} :
            /\ \A k \in 1..Len(list) : IsCanonical(list[k].linkedin_url)
            /\ \A j, k \in 1..Len(list) :
                   j # k => normalize_profile_url(list[j].linkedin_url)
                               # normalize_profile_url(list[k].linkedin_url)
\* C18: the "Show more results" loop of scrape_company_followers stops for
\* every behaviour of the page, also when the button stays visible after
\* every click: the call returns.
C18_LoopsTerminate == <>(wpc = "returned")
\* C19: in every sequence of enter, close and get_profile, get_profile
\* hands a page only after a successful enter and before the next close; in
\* every other state it raises RuntimeError and navigates nowhere.  The page
\* is handed in the step of get_profile that gets past _ensure_authenticated: the task
\* goes on into scrape_profile, or HttpUrl refuses the url.
C19_PageOnlyWhileAuthenticated ==
    [][LET ends == Len(shist') > Len(shist) /\ shist'[Len(shist')].op = "get_profile"
           refused == ends /\ shist'[Len(shist')].out = "RuntimeError"
           handed == \/ ends /\ shist'[Len(shist')].out = "url_raises"
                     \/ \E t \in Tasks : /\ stasks[t].pc # "scraping"
                                         /\ stasks'[t].pc = "scraping"
       IN  /\ handed => sgood
           /\ ((handed \/ refused) /\ ~sgood) => (refused /\ snav' = snav)
           /\ snav' # snav => handed]_vars

\* get_profile was handed the page after an enter, the other task closed
\* the session while scrape_profile was awaited, the call came back after
\* the close, and the next call was refused
C19_Witness ==
    /\ shist = <<Did("enter", "ok"), Did("close", "ok"),
                 Did("get_profile", "page"), Did("get_profile", "RuntimeError")>>
    /\ ~spage
    /\ snav = 1
\* C20: _authenticate raises SecurityChallengeError when the page after the
\* login is a challenge or checkpoint and interactive is false,
\* InvalidCredentialsError when the page shows the wrong-credentials
\* message, and LoginTimeoutError only for the failures that are left.
C20_DocumentedErrors ==
    fpc = "out" =>
        LET challenged == fin.form = "works"
                          /\ (fin.url \in {"challenge", "checkpoint"} \/ fin.challenge_text)
            refused == fin.form = "works" /\ ~challenged /\ ~is_logged_in(fin.url)
                       /\ fin.wrong_credentials_text
        IN  /\ (challenged /\ ~fin.interactive) => fout = Raises("SecurityChallengeError")
            /\ refused => fout = Raises("InvalidCredentialsError")
            /\ fout = Raises("LoginTimeoutError")
                   => ~(challenged /\ ~fin.interactive) /\ ~refused

\* the text, or one of its parts between separators, is exactly an entry
\* of the employment-type vocabulary
ExactSomewhere(text) ==
    \/ IsExactType(text)
    \/ FirstExact(SplitStr(text, <<Sep>>)) # NoneStr
    \/ FirstExact(SplitStr(text, <<"-">>)) # NoneStr

\* the text holds a comma or a location keyword
LooksLikeLocation(text) == ContainsAny(text, GeoWords)

\* C21: a trailing element that both contains an employment-type word and
\* looks like a location is stored as the location unless the element or
\* one of its separator-split parts is exactly a vocabulary entry.
C21_TieGoesToLocation ==
    (fpc = "out" /\ Len(fin) \in {3, 4}
        /\ \E last \in {Flat(fin[Len(fin)])} :
               /\ ~(HasSep(last) /\ AnyPartIsDate(last))
               /\ is_employment_type(last)
               /\ LooksLikeLocation(last)
               /\ ~ExactSomewhere(last))
    => fout.location = fin[Len(fin)]

\* the element of an entry that holds the company text
CompanyElement(toks) == IF Len(toks) = 4 THEN toks[2] ELSE toks[1]

\* C22: the trailing element "Contract Sep Remote" is split at the
\* separator and each part classified on its own: the entry gets the
\* location "Remote" and, when the company text brought no employment type,
\* the employment type "Contract".
C22_CompoundTrailing ==
    (fpc = "out" /\ Len(fin) \in {3, 4}
        /\ fin[Len(fin)] = <<"Contract", " ", Sep, " ", "Remote">>)
    => /\ fout.location = <<"Remote">>
       /\ ~HasSep(Flat(CompanyElement(fin))) => fout.employment_type = <<"Contract">>

\* a date range, alone or followed by "Sep duration"
IsDateElement(t) ==
    /\ Len(SplitStr(Flat(t), <<Sep>>)) <= 2
    /\ is_date_range(DatePart(Flat(t)))

\* C23: in an entry of three or four elements of which exactly one is a
\* date range (with or without "Sep duration"), from_date and to_date are the
\* two sides of that element, at whichever place it stands.
C23_DatesAtAnyPosition ==
    (fpc = "out" /\ Len(fin) \in {3, 4}
        /\ Cardinality({k \in 1..Len(fin) : IsDateElement(fin[k])}) = 1)
    => LET k == CHOOSE j \in 1..Len(fin) : IsDateElement(fin[j])
           d == TextsOf(DatesOfTimes(DatePart(Flat(fin[k]))))
       IN  fout.from_date = d.from /\ fout.to_date = d.to

\* the lines that are neither a skills line nor a near-duplicate of a
\* line kept before them
RECURSIVE KeptLines(_, _)
KeptLines(lines, kept) ==
    IF lines = <<>> THEN kept
    ELSE KeptLines(Tail(lines),
                   IF StartsWithSkills(lines[1]) \/ NearDuplicate(lines[1], kept)
                   THEN kept ELSE Append(kept, lines[1]))

\* C24: in extract_description_and_skills a non-empty line that does not
\* start with "Skills:" goes into the description if and only if it is not
\* a near-duplicate of the description lines collected before it; a line is
\* dropped for no other reason.
C24_DroppedOnlyAsDuplicate ==
    (fpc = "out" /\ fin.via = "text" /\ fin.text # <<>> /\ ~StartsWithSkills(Flat(fin.text)))
    => fout.description = JoinStr(KeptLines(StrippedLines(Flat(fin.text)), <<>>), <<"\n">>)

\* the raw text is narrative lines and then one line of skills
NarrativeThenSkills(t) ==
    \E lines \in {StrippedLines(Flat(t))} :
        /\ Len(lines) >= 2
        /\ StartsWithSkills(lines[Len(lines)])
        /\ \A k \in 1..(Len(lines) - 1) : ~StartsWithSkills(lines[k])

\* C25: for an education item whose raw text is narrative lines followed
\* by a line that starts with "Skills:", scrape_educations stores the entry,
\* the stored description has no skills text in it, and "Built tools" /
\* "Skills: Java Sep Python" is stored as the description "Built tools" with
\* the skills Java and Python.
C25_EducationSkillsSplit ==
    (fpc = "out" /\ fin.nav = "ok" /\ fin.item.container_visible
        /\ fin.item.summary_visible /\ NarrativeThenSkills(fin.item.raw_text))
    => /\ Len(fout.educations) = 1
       /\ \A k \in 1..Len(fout.educations) :
             /\ ~ContainsStr(Flat(fout.educations[k].description), SkillsWord)
             /\ fin.item.raw_text = <<"Built", " ", "tools", "\n", "Skills:", " ", "Java", " ",
                                      Sep, " ", "Python">>
                    => /\ fout.educations[k].description = <<"Built", " ", "tools">>
                       /\ fout.educations[k].skills = <<Str("Java"), Str("Python")>>

\* the entries of scraping_errors that belong to a card
ItemErrors == {k \in DOMAIN scraping_errors : k[1] = "employee_extraction"}

\* C26: over all pages of one scrape_employees call every card whose
\* extraction raised has an error entry of its own: there are as many item
\* entries in scraping_errors as cards that failed.
C26_OneErrorPerFailedItem == Cardinality(ItemErrors) = failedItems

\* C27: a card is marked as seen only if it is stored: after every card
\* each canonical URL in processed_urls is the URL of an entry of
\* company.employees.
C27_SeenOnlyIfStored ==
    \A u \in processed_urls : \E k \in 1..Len(employees) : employees[k].linkedin_url = u

\* C28: over every sequence of enter and close calls, no browser manager
\* is exited twice, and after a close that came back the session is
\* unauthenticated, holds no browser manager, context or page, and every
\* manager that was made has been exited exactly once.
C28_ManagersExitedOnce ==
    /\ \A k \in 1..Len(sexits) : sexits[k] <= 1
    /\ (shist # <<>> /\ shist[Len(shist)] = Did("close", "ok"))
           => /\ ~sauth /\ sbrowser = 0 /\ ~scontext /\ ~spage
              /\ \A k \in 1..Len(sexits) : sexits[k] = 1

\* C29: the connections list added to a person holds at most 20 entries and
\* no two of them have the same canonical URL
C29_ConnectionsCappedAndDistinct ==
    /\ Len(connections) <= max_connections
    /\ \A j, k \in 1..Len(connections) :
          normalize_profile_url(connections[j].url) = normalize_profile_url(connections[k].url)
              => j = k

\* the generic strategy, after the cards strategy found no name, stopped at
\* the cap on a page with more links than the cap, and an earlier link had
\* been skipped as a repetition or for a missing name
C29_Witness ==
    /\ kpc = "returned"
    /\ kran = <<"cards", "generic">>
    /\ Len(connections) = max_connections
    /\ ki < kpage.n
    /\ ki > kadded

\* C30: for a work-times text whose date part is accepted by is_date_range,
\* _parse_work_times yields the from_date and to_date that
\* parse_date_range_smart yields on that date part
C30_SameDatesAsSmartParser ==
    (fpc = "out" /\ is_date_range(DatePart(Flat(fin))))
        => /\ fout.times_info.from_date = fout.smart.from
           /\ fout.times_info.to_date = fout.smart.to

====
